---- MODULE Spec2Model ----
(***************************************************************************)
(* A model of es_orm: the Field hierarchy of src/es_orm/fields.py (set,    *)
(* update, set_attrs, clean, serialize, deserialize of the scalar fields,  *)
(* Choices, List, Dict and ConvertedDict).                                 *)
(*                                                                         *)
(* Python values are tagged records [k, v]:                                *)
(*   none   v = <<>>                                                       *)
(*   int    v = the number                                                 *)
(*   str    v = the sequence of its pieces (characters, or a whole name)   *)
(*   list   v = the sequence of its elements                               *)
(*   dict   v = the sequence of its [key, val] pairs, in insertion order   *)
(* The attribute maps _attrs and _default_attrs are functions from keys    *)
(* to Python values.  An operation returns [obj, exc, msg, ret]: the       *)
(* object after the call, the exception it raised ("none" when it          *)
(* returned), the exception's message and the returned value.              *)
(***************************************************************************)
EXTENDS Integers, Sequences, FiniteSets, TLC

VARIABLES obj, last

vars == <<obj, last>>

----------------------------------------------------------------------------
(* Python values *)

PyNone == [k |-> "none", v |-> <<>>]

PyInt(n) == [k |-> "int", v |-> n]

PyStr(s) == [k |-> "str", v |-> s]

PyList(s) == [k |-> "list", v |-> s]

PyDict(s) == [k |-> "dict", v |-> s]

Pair(key, val) == [key |-> key, val |-> val]

EmptyMap == [x \in {} |-> x]

Range(s) == {s[i] : i \in DOMAIN s}

isinstance(x, type) == type = "object" \/ x.k = type

\* key in d, for a Python value d that is a dict
HasKey(d, key) == \E i \in DOMAIN d.v : d.v[i].key = key

\* d[key]
GetKey(d, key) == d.v[CHOOSE i \in DOMAIN d.v : d.v[i].key = key].val

Keys(d) == {d.v[i].key : i \in DOMAIN d.v}

\* the dict d without key (dict.pop(key, None) seen as a value)
DelKey(d, key) == PyDict(SelectSeq(d.v, LAMBDA p : p.key # key))

\* d[key] = val on a dict: an existing key keeps its place, a new key comes last
SetKey(d, key, val) ==
    IF HasKey(d, key)
    THEN PyDict([i \in DOMAIN d.v |-> IF d.v[i].key = key THEN Pair(key, val) ELSE d.v[i]])
    ELSE PyDict(Append(d.v, Pair(key, val)))

RECURSIVE dict_update(_, _)
\* d.update(e)
dict_update(d, e) ==
    IF e.v = <<>> THEN d ELSE dict_update(SetKey(d, e.v[1].key, e.v[1].val), PyDict(Tail(e.v)))

\* the dict d as a function from its keys to their values
AsMap(d) == [key \in Keys(d) |-> GetKey(d, key)]

\* {**a, **b} for two attribute maps: b's entries override a's
Overlay(a, b) == b @@ a

\* the entries of the map a whose key is in S
Restrict(a, S) == [key \in (DOMAIN a) \cap S |-> a[key]]

RECURSIVE SeqOfSet(_)
\* the elements of a finite set, in some order
SeqOfSet(S) == IF S = {} THEN <<>> ELSE LET x == CHOOSE x \in S : TRUE IN <<x>> \o SeqOfSet(S \ {x})

\* a dict holding the entries of the map m
DictOf(m) == PyDict([i \in 1..Cardinality(DOMAIN m) |-> Pair(SeqOfSet(DOMAIN m)[i], m[SeqOfSet(DOMAIN m)[i]])])

\* Field.EMPTY_VALUES = [None, [], (), {}, set(), ""]; x in EMPTY_VALUES
EMPTY_VALUES(x) == x.k = "none" \/ (x.k \in {"list", "dict", "str"} /\ x.v = <<>>)

\* not x: the values Python takes as false
Falsy(x) == EMPTY_VALUES(x) \/ x = PyInt(0)

Digits == <<"0", "1", "2", "3", "4", "5", "6", "7", "8", "9">>

IsDigit(c) == \E i \in DOMAIN Digits : Digits[i] = c

DigitValue(c) == (CHOOSE i \in DOMAIN Digits : Digits[i] = c) - 1

RECURSIVE IntToStr(_)
\* str(n) for an int n >= 0
IntToStr(n) == IF n < 10 THEN <<Digits[n + 1]>> ELSE IntToStr(n \div 10) \o <<Digits[(n % 10) + 1]>>

RECURSIVE StrToInt(_)
\* the number a non-empty sequence of digits denotes
StrToInt(s) == IF Len(s) = 1 THEN DigitValue(s[1]) ELSE 10 * StrToInt(SubSeq(s, 1, Len(s) - 1)) + DigitValue(s[Len(s)])

\* the name Python prints for type(x)
TypeName(x) == x.k

\* str(x): a str is itself, an int its digits, None is "None"; a container is shown by its type
\* name (its repr is not modelled piece by piece)
str(x) ==
    CASE x.k = "str" -> x
      [] x.k = "int" -> PyStr(IntToStr(x.v))
      [] x.k = "none" -> PyStr(<<"N", "o", "n", "e">>)
      [] OTHER -> PyStr(<<"<", x.k, ">">>)

\* int(x): [ok, val, err]
int(x) ==
    CASE x.k = "int" -> [ok |-> TRUE, val |-> x, err |-> "none"]
      [] x.k = "str" ->
            IF x.v # <<>> /\ \A i \in DOMAIN x.v : IsDigit(x.v[i])
            THEN [ok |-> TRUE, val |-> PyInt(StrToInt(x.v)), err |-> "none"]
            ELSE [ok |-> FALSE, val |-> PyNone, err |-> "ValueError"]
      [] OTHER -> [ok |-> FALSE, val |-> PyNone, err |-> "TypeError"]

----------------------------------------------------------------------------
(* Field: construction *)

\* Field.ValidationLevel
STRICT == 0

WARNING == 1

DISABLED == 2

\* the class attribute Field._default_attrs
Field_default_attrs == ("pretty_name" :> PyStr(<<"Field">>)) @@ ("content_type" :> PyStr(<<"text">>))

\* the class attribute _value_type of each Field class
ValueTypeOf(cls) ==
    CASE cls \in {"Text", "ForeignKey"} -> "str"
      [] cls = "Integer" -> "int"
      [] cls = "List" -> "list"
      [] cls \in {"Dict", "ConvertedDict"} -> "dict"
      [] OTHER -> "object"

\* Field.__init__
Field_init(cls, default, default_attrs, required, validation_level, attrs_enabled) ==
    [cls |-> cls,
     value |-> PyNone,
     _value_type |-> ValueTypeOf(cls),
     _default_value |-> default,
     _default_attrs |-> Overlay(Field_default_attrs, default_attrs),
     _attrs |-> EmptyMap,
     _required |-> required,
     _validation_level |-> validation_level,
     _attrs_enabled |-> attrs_enabled]

\* Choices.__init__
Choices_init(choices, default, default_attrs, required, validation_level, attrs_enabled) ==
    Field_init("Choices", default, default_attrs, required, validation_level, attrs_enabled)
        @@ [_choices |-> choices]

\* List.__init__: the element object validates strictly
List_init(element_object, default, default_attrs, required, validation_level, attrs_enabled) ==
    Field_init("List", default, default_attrs, required, validation_level, attrs_enabled)
        @@ [_element_object |-> [element_object EXCEPT !._validation_level = STRICT]]

\* a property of a Dict
Prop(name, field) == [name |-> name, field |-> field]

\* Dict.__init__ (properties: the Field objects given, in order)
Dict_init(properties, inner_attrs_enabled, default, default_attrs, required, validation_level, attrs_enabled) ==
    Field_init("Dict", default, default_attrs, required, validation_level, attrs_enabled)
        @@ [_properties |->
                [i \in DOMAIN properties |->
                    IF inner_attrs_enabled
                    THEN properties[i]
                    ELSE Prop(properties[i].name, [properties[i].field EXCEPT !._attrs_enabled = FALSE])],
            _inner_attrs_enabled |-> inner_attrs_enabled,
            _is_properties_defined |-> properties # <<>>]

\* the depth ConvertedDict.__init__ asks __update_mapping for
InitialDepth == 1

\* ConvertedDict.__init__: the mapping is made for depth 1
ConvertedDict_init(default, default_attrs, required, validation_level, attrs_enabled) ==
    Field_init("ConvertedDict", default, default_attrs, required, validation_level, attrs_enabled)
        @@ [_depth |-> InitialDepth]

\* op(v): v is computed once and named by op's parameter
With(v, op(_)) == op(v)

\* an operation's outcome
Ret(o, r) == [obj |-> o, exc |-> "none", msg |-> <<>>, ret |-> r]

Raise(o, e, m) == [obj |-> o, exc |-> e, msg |-> m, ret |-> PyNone]

----------------------------------------------------------------------------
(* Field: the operations, dispatched on the object's class *)

\* a method called on an object runs the definition of the object's class; the calls
\* that reach the fields held by a field (children, list elements) go through Invoke
RECURSIVE Invoke(_, _, _, _)
RECURSIVE Dict_setvalue(_, _), Dict__clean(_), Dict__deserialize(_, _), List__clean(_)
RECURSIVE List_clean_loop_sharing(_, _, _)
RECURSIVE ConvertedDict__clean(_), ConvertedDict__deserialize(_, _)

\* self.value, read
value(f) == Invoke("value", f, PyNone, FALSE)

\* f.set(new)
set(f, new) == Invoke("set", f, new, FALSE)

\* f.clean()
clean(f) == Invoke("clean", f, PyNone, FALSE)

\* f.serialize(include_all_attrs)
serialize(f, include_all_attrs) == Invoke("serialize", f, PyNone, include_all_attrs)

\* f._serialize()
_serialize(f) == Invoke("_serialize", f, PyNone, FALSE)

\* f.deserialize(data, auto_set)
deserialize(f, data, auto_set) == Invoke("deserialize", f, data, auto_set)

\* list(data)
list(data) ==
    CASE data.k = "list" -> [ok |-> TRUE, val |-> data]
      [] data.k = "str" -> [ok |-> TRUE, val |-> PyList([i \in DOMAIN data.v |-> PyStr(<<data.v[i]>>)])]
      [] data.k = "dict" -> [ok |-> TRUE, val |-> PyList([i \in DOMAIN data.v |-> PyStr(<<data.v[i].key>>)])]
      [] OTHER -> [ok |-> FALSE, val |-> PyNone]

\* Field._deserialize
Field__deserialize(f, data) ==
    CASE f._value_type = "object" -> Ret(f, str(data))
      [] f._value_type = "str" -> Ret(f, str(data))
      [] f._value_type = "int" ->
            IF int(data).ok THEN Ret(f, int(data).val) ELSE Raise(f, int(data).err, <<int(data).err>>)
      [] f._value_type = "list" ->
            IF list(data).ok THEN Ret(f, list(data).val) ELSE Raise(f, "TypeError", <<"TypeError">>)
      [] OTHER -> Raise(f, "TypeError", <<"TypeError">>)

_deserialize(f, data) ==
    CASE f.cls = "Dict" -> Dict__deserialize(f, data)
      [] f.cls = "ConvertedDict" -> ConvertedDict__deserialize(f, data)
      [] OTHER -> Field__deserialize(f, data)

\* the attribute self.value, assigned
setvalue(f, v) ==
    IF f.cls = "Dict" THEN Dict_setvalue(f, v) ELSE Ret([f EXCEPT !.value = v], PyNone)

\* Field.set
Field_set(f, new) ==
    IF f._attrs_enabled /\ new.k = "dict" /\ HasKey(new, "value")
    THEN setvalue([f EXCEPT !._attrs = AsMap(DelKey(new, "value"))], GetKey(new, "value"))
    ELSE setvalue(f, new)

\* Field.update without the merge of the previous attributes
Field_update_replacing(f, new) == set(f, new)

\* Field.update
Field_update(f, new) ==
    IF f._attrs_enabled /\ new.k = "dict" /\ HasKey(new, "value")
    THEN set(f, DictOf(Overlay(f._attrs, AsMap(new))))
    ELSE set(f, new)

\* Field.set_attrs (attrs: the dict given, with the keyword arguments merged in)
Field_set_attrs(f, attrs, include_undefined) ==
    IF ~ Falsy(attrs) /\ attrs.k # "dict"
    THEN Raise(f, "TypeError", <<"TypeError">>)
    ELSE LET given == IF Falsy(attrs) THEN EmptyMap ELSE AsMap(DelKey(attrs, "value"))
         IN  IF include_undefined
             THEN Ret([f EXCEPT !._attrs = given], PyNone)
             ELSE Ret([f EXCEPT !._attrs =
                          Restrict(given, (DOMAIN f._attrs) \cup (DOMAIN f._default_attrs))], PyNone)

\* Field.update_attrs
Field_update_attrs(f, attrs, include_undefined) ==
    IF ~ Falsy(attrs) /\ attrs.k # "dict"
    THEN Raise(f, "TypeError", <<"TypeError">>)
    ELSE LET given == IF Falsy(attrs) THEN EmptyMap ELSE AsMap(attrs)
         IN  Field_set_attrs(f, DictOf(Overlay(f._attrs, given)), include_undefined)

\* Field.__setitem__
Field_setitem(f, key, new) ==
    IF key = "value"
    THEN setvalue(f, new)
    ELSE IF key \in DOMAIN f._attrs \/ key \in DOMAIN f._default_attrs
         THEN Field_set_attrs(f, PyDict(<<Pair(key, new)>>), FALSE)
         ELSE Raise(f, "KeyError", <<"KeyError">>)

\* Field._clean
Field__clean(f) ==
    With(value(f), LAMBDA data :
        IF ~ isinstance(data, f._value_type)
        THEN With(_deserialize(f, data), LAMBDA d :
                 IF d.exc # "none"
                 THEN Raise(d.obj, "ValidationException",
                            <<"cannot convert", TypeName(data), "to", f._value_type>> \o d.msg)
                 ELSE setvalue(d.obj, d.ret))
        ELSE setvalue(f, data))

\* Choices._clean
Choices__clean(f) ==
    IF f.value \notin f._choices
    THEN Raise(f, "ValidationException", <<"not in choices">>)
    ELSE Ret(f, PyNone)

_clean(f) ==
    CASE f.cls = "Choices" -> Choices__clean(f)
      [] f.cls = "List" -> List__clean(f)
      [] f.cls = "Dict" -> Dict__clean(f)
      [] f.cls = "ConvertedDict" -> ConvertedDict__clean(f)
      [] OTHER -> Field__clean(f)

\* Field.clean that raises whatever the validation level is
Field_clean_raising(f) ==
    IF EMPTY_VALUES(value(f))
    THEN IF f._required
         THEN Raise(f, "ValidationException", <<"required">>)
         ELSE setvalue(f, PyNone)
    ELSE _clean(f)

\* Field.clean that leaves an empty value as it is
Field_clean_keeping(f) ==
    IF EMPTY_VALUES(value(f))
    THEN IF f._required
         THEN Raise(f, "ValidationException", <<"required">>)
         ELSE Ret(f, PyNone)
    ELSE With(_clean(f), LAMBDA r :
             IF r.exc = "ValidationException"
             THEN CASE f._validation_level = STRICT -> r
                    [] f._validation_level = WARNING ->
                          Ret([r.obj EXCEPT !._attrs = Overlay(@, "warning" :> PyStr(r.msg))], PyNone)
                    [] OTHER -> Ret(r.obj, PyNone)
             ELSE r)

\* Field.clean, had it taken InitializationRequired for a failed validation
Field_clean_catching(f) ==
    IF EMPTY_VALUES(value(f))
    THEN IF f._required
         THEN Raise(f, "ValidationException", <<"required">>)
         ELSE setvalue(f, PyNone)
    ELSE With(_clean(f), LAMBDA r :
             IF r.exc \in {"ValidationException", "InitializationRequired"}
             THEN CASE f._validation_level = STRICT -> [r EXCEPT !.exc = "ValidationException"]
                    [] f._validation_level = WARNING ->
                          Ret([r.obj EXCEPT !._attrs = Overlay(@, "warning" :> PyStr(r.msg))], PyNone)
                    [] OTHER -> Ret(r.obj, PyNone)
             ELSE r)

\* Field.clean
Field_clean(f) ==
    IF EMPTY_VALUES(value(f))
    THEN IF f._required
         THEN Raise(f, "ValidationException", <<"required">>)
         ELSE setvalue(f, PyNone)
    ELSE With(_clean(f), LAMBDA r :
             IF r.exc = "ValidationException"
             THEN CASE f._validation_level = STRICT -> r
                    [] f._validation_level = WARNING ->
                          Ret([r.obj EXCEPT !._attrs = Overlay(@, "warning" :> PyStr(r.msg))], PyNone)
                    [] OTHER -> Ret(r.obj, PyNone)
             ELSE r)

\* Field._serialize
Field__serialize(f) == Ret(f, value(f))

\* {'value': v, **attrs}
Wrapped(v, attrs) == DictOf(Overlay("value" :> v, attrs))

\* Field.serialize
Field_serialize(f, include_all_attrs) ==
    With(_serialize(f), LAMBDA s :
        IF s.exc # "none"
        THEN s
        ELSE IF EMPTY_VALUES(s.ret) /\ EMPTY_VALUES(f._default_value)
             THEN Ret(s.obj, PyNone)
             ELSE With(IF EMPTY_VALUES(s.ret) THEN f._default_value ELSE s.ret, LAMBDA v :
                      IF f._attrs_enabled
                      THEN IF include_all_attrs
                           THEN Ret(s.obj, Wrapped(v, Overlay(s.obj._default_attrs, s.obj._attrs)))
                           ELSE Ret(s.obj, Wrapped(v, s.obj._attrs))
                      ELSE Ret(s.obj, v)))

\* Field.deserialize
Field_deserialize(f, data, auto_set) ==
    With(_deserialize(f, IF f._attrs_enabled /\ data.k = "dict" /\ HasKey(data, "value")
                         THEN GetKey(data, "value")
                         ELSE data),
         LAMBDA d :
            IF d.exc # "none"
            THEN d
            ELSE IF auto_set
                 THEN With(set(d.obj, d.ret), LAMBDA r : [r EXCEPT !.ret = d.ret])
                 ELSE d)

----------------------------------------------------------------------------
(* List *)

RECURSIVE List_clean_loop(_, _, _), List_serialize_loop(_, _, _, _)

\* the list element left behind by element_object.set(element): set pops 'value'
\* from a wrapped element, in place
AfterSet(eo, element) ==
    IF eo._attrs_enabled /\ element.k = "dict" /\ HasKey(element, "value")
    THEN DelKey(element, "value")
    ELSE element

\* self.value[i] = x
SetElement(f, i, x) == [f EXCEPT !.value = PyList([@.v EXCEPT ![i] = x])]

\* the loop of List._clean working on self._element_object itself, without the deepcopy
List_clean_loop_sharing(f, eo, i) ==
    IF i > Len(f.value.v)
    THEN Ret([f EXCEPT !._element_object = eo], PyNone)
    ELSE With(set(eo, f.value.v[i]), LAMBDA s :
         With(SetElement(f, i, AfterSet(eo, f.value.v[i])), LAMBDA g :
             IF s.exc # "none"
             THEN Raise([f EXCEPT !._element_object = eo], "ValidationException",
                        <<"cannot check element">> \o str(f.value.v[i]).v \o s.msg)
             ELSE With(clean(s.obj), LAMBDA c :
                      IF c.exc = "ValidationException"
                      THEN Raise([g EXCEPT !._element_object = c.obj], "ValidationException",
                                 <<"cannot validate element">> \o str(g.value.v[i]).v \o c.msg)
                      ELSE IF c.exc # "none"
                           THEN Raise(g, c.exc, c.msg)
                           ELSE List_clean_loop_sharing(SetElement(g, i, value(c.obj)), c.obj, i + 1))))

\* the loop of List._clean from element i on, with the element object eo
List_clean_loop(f, eo, i) ==
    IF i > Len(f.value.v)
    THEN Ret(f, PyNone)
    ELSE With(set(eo, f.value.v[i]), LAMBDA s :
         With(SetElement(f, i, AfterSet(eo, f.value.v[i])), LAMBDA g :
             IF s.exc # "none"
             THEN Raise(f, "ValidationException",
                        <<"cannot check element">> \o str(f.value.v[i]).v \o s.msg)
             ELSE With(clean(s.obj), LAMBDA c :
                      IF c.exc = "ValidationException"
                      THEN Raise(g, "ValidationException",
                                 <<"cannot validate element">> \o str(g.value.v[i]).v \o c.msg)
                      ELSE IF c.exc # "none"
                           THEN Raise(g, c.exc, c.msg)
                           ELSE List_clean_loop(SetElement(g, i, value(c.obj)), c.obj, i + 1))))

\* List._clean
List__clean(f) ==
    IF ~ isinstance(f.value, "list")
    THEN Raise(f, "ValidationException", <<"not a list">>)
    ELSE List_clean_loop(f, f._element_object, 1)

\* the loop of List._serialize from element i on
List_serialize_loop(f, eo, i, result) ==
    IF i > Len(f.value.v)
    THEN Ret(f, PyList(result))
    ELSE With(set(eo, f.value.v[i]), LAMBDA s :
         With(SetElement(f, i, AfterSet(eo, f.value.v[i])), LAMBDA g :
             IF s.exc # "none"
             THEN Raise(f, s.exc, s.msg)
             ELSE With(_serialize(s.obj), LAMBDA e :
                      IF e.exc # "none"
                      THEN Raise(g, e.exc, e.msg)
                      ELSE List_serialize_loop(g, e.obj, i + 1, Append(result, e.ret)))))

\* List._serialize
List__serialize(f) ==
    IF ~ isinstance(f.value, "list")
    THEN Ret(f, str(f.value))
    ELSE List_serialize_loop(f, f._element_object, 1, <<>>)

----------------------------------------------------------------------------
(* Dict *)

RECURSIVE Dict_value_from(_, _), Dict_update_items(_, _, _, _), Dict_clean_loop(_, _, _)
RECURSIVE Dict_deserialize_items(_, _, _)

\* the names of self._properties
PropNames(f) == {f._properties[i].name : i \in DOMAIN f._properties}

\* the place of self._properties[name]
PropIndex(f, name) == CHOOSE i \in DOMAIN f._properties : f._properties[i].name = name

\* self._properties[name]
PropOf(f, name) == f._properties[PropIndex(f, name)].field

\* self._properties[name] = field
WithProp(f, name, field) ==
    IF name \in PropNames(f)
    THEN [f EXCEPT !._properties[PropIndex(f, name)] = Prop(name, field)]
    ELSE [f EXCEPT !._properties = Append(@, Prop(name, field))]

\* the loop of the Dict.value getter from property i on
Dict_value_from(f, i) ==
    IF i > Len(f._properties)
    THEN <<>>
    ELSE (IF ~ EMPTY_VALUES(value(f._properties[i].field))
          THEN <<Pair(f._properties[i].name, serialize(f._properties[i].field, FALSE).ret)>>
          ELSE <<>>) \o Dict_value_from(f, i + 1)

\* Dict.value, read
Dict_value(f) == PyDict(Dict_value_from(f, 1))

\* {property_name: None for property_name in self._properties}
NoneForEach(f) == PyDict([i \in DOMAIN f._properties |-> Pair(f._properties[i].name, PyNone)])

\* Dict.__add_undefined_property that makes a Text property of every value
Dict_add_undefined_text(f, key, v) ==
    With(set(Field_init("Text", PyNone, EmptyMap, FALSE, STRICT, f._inner_attrs_enabled), v),
         LAMBDA r : Ret(WithProp(f, key, r.obj), PyNone))

\* Dict.__add_undefined_property
Dict_add_undefined_property(f, key, v) ==
    IF v.k = "dict" /\ ~ HasKey(v, "value")
    THEN With(Invoke("set", Dict_init(<<>>, FALSE, PyNone, EmptyMap, FALSE, STRICT,
                                      f._inner_attrs_enabled), v, TRUE),
              LAMBDA r : IF r.exc # "none"
                         THEN Raise(f, r.exc, r.msg)
                         ELSE Ret(WithProp(f, key, r.obj), PyNone))
    ELSE With(set(Field_init("Text", PyNone, EmptyMap, FALSE, STRICT, f._inner_attrs_enabled), v),
              LAMBDA r : Ret(WithProp(f, key, r.obj), PyNone))

\* the loop of Dict.update from item i on
Dict_update_items(f, items, i, include_undefined) ==
    IF i > Len(items)
    THEN Ret(f, PyNone)
    ELSE With(IF items[i].key \in PropNames(f)
              THEN With(set(PropOf(f, items[i].key), items[i].val),
                        LAMBDA c : [c EXCEPT !.obj = WithProp(f, items[i].key, c.obj)])
              ELSE IF include_undefined
                   THEN Dict_add_undefined_property(f, items[i].key, items[i].val)
                   ELSE Ret(f, PyNone),
              LAMBDA r : IF r.exc # "none"
                         THEN r
                         ELSE Dict_update_items(r.obj, items, i + 1, include_undefined))

\* Dict.update (v: the dict given, with the keyword arguments merged in)
Dict_update(f, v, include_undefined) ==
    IF ~ Falsy(v) /\ v.k # "dict"
    THEN Raise(f, "TypeError", <<"TypeError">>)
    ELSE Dict_update_items(f, IF Falsy(v) THEN <<>> ELSE v.v, 1,
                           include_undefined \/ ~ f._is_properties_defined)

\* Dict.value, assigned, without the None given to the properties that v does not name
Dict_setvalue_keeping(f, v) ==
    IF ~ Falsy(v) /\ v.k # "dict"
    THEN Raise(f, "TypeError", <<"TypeError">>)
    ELSE Dict_update(f, IF Falsy(v) THEN PyDict(<<>>) ELSE v, TRUE)

\* Dict.value, assigned
Dict_setvalue(f, v) ==
    IF ~ Falsy(v) /\ v.k # "dict"
    THEN Raise(f, "TypeError", <<"TypeError">>)
    ELSE Dict_update(f, dict_update(NoneForEach(f), IF Falsy(v) THEN PyDict(<<>>) ELSE v), TRUE)

\* the dict d without the keys that name no property of f
KnownOnly(f, d) == PyDict(SelectSeq(d.v, LAMBDA p : p.key \in PropNames(f)))

\* Dict.set without the removal of the keys that name no property
Dict_set_unfiltered(f, v, include_undefined) ==
    IF ~ Falsy(v) /\ v.k # "dict"
    THEN Raise(f, "TypeError", <<"TypeError">>)
    ELSE With(Field_set(f, v), LAMBDA r :
             IF r.exc # "none"
             THEN r
             ELSE Dict_update(r.obj, PyNone, include_undefined \/ ~ f._is_properties_defined))

\* Dict.set (called without keyword arguments)
Dict_set(f, v, include_undefined) ==
    IF ~ Falsy(v) /\ v.k # "dict"
    THEN Raise(f, "TypeError", <<"TypeError">>)
    ELSE IF ~ Falsy(v) /\ ~ (include_undefined \/ ~ f._is_properties_defined)
         THEN IF f._attrs_enabled /\ HasKey(v, "value")
              THEN IF GetKey(v, "value").k # "dict"
                   THEN Raise(f, "AttributeError", <<"AttributeError">>)
                   ELSE Dict_set_unfiltered(f, SetKey(v, "value", KnownOnly(f, GetKey(v, "value"))),
                                            include_undefined)
              ELSE Dict_set_unfiltered(f, KnownOnly(f, v), include_undefined)
         ELSE Dict_set_unfiltered(f, v, include_undefined)

\* the loop of Dict._clean from property i on, with the messages gathered so far
Dict_clean_loop(f, i, error_message) ==
    IF i > Len(f._properties)
    THEN IF error_message # <<>>
         THEN Raise(f, "ValidationException", error_message)
         ELSE Ret(f, PyNone)
    ELSE With(clean(f._properties[i].field), LAMBDA r :
         With([f EXCEPT !._properties[i].field = r.obj], LAMBDA g :
             IF r.exc = "ValidationException"
             THEN Dict_clean_loop(g, i + 1,
                                  error_message \o <<"field", f._properties[i].name>> \o r.msg \o <<".">>)
             ELSE IF r.exc # "none"
                  THEN Raise(g, r.exc, r.msg)
                  ELSE Dict_clean_loop(g, i + 1, error_message)))

\* Dict._clean
Dict__clean(f) == Dict_clean_loop(f, 1, <<>>)

\* the loop of Dict._deserialize from item i of data on
Dict_deserialize_items(f, data, i) ==
    IF i > Len(data.v)
    THEN Ret(f, data)
    ELSE IF data.v[i].key \notin PropNames(f)
         THEN Dict_deserialize_items(f, data, i + 1)
         ELSE With(deserialize(PropOf(f, data.v[i].key), data.v[i].val, FALSE), LAMBDA d :
                  IF d.exc # "none"
                  THEN Raise(f, d.exc, d.msg)
                  ELSE Dict_deserialize_items(f, SetKey(data, data.v[i].key, d.ret), i + 1))

\* Dict._deserialize
Dict__deserialize(f, data) ==
    IF Falsy(data)
    THEN Ret(f, PyNone)
    ELSE IF data.k # "dict"
         THEN Raise(f, "AttributeError", <<"AttributeError">>)
         ELSE Dict_deserialize_items(f, data, 1)

----------------------------------------------------------------------------
(* ConvertedDict *)

RECURSIVE convert_dict(_), deconvert_dict(_), deconvert_pairs(_, _, _), determine_depth(_)

Max(S) == CHOOSE x \in S : \A y \in S : y <= x

\* ConvertedDict.__convert_dict that does not descend into inner dicts
convert_dict_flat(data) ==
    PyList([i \in DOMAIN data.v |->
        PyDict(<<Pair("key", PyStr(<<data.v[i].key>>)), Pair("value", data.v[i].val)>>)])

\* ConvertedDict.__convert_dict
convert_dict(data) ==
    PyList([i \in DOMAIN data.v |->
        IF data.v[i].val.k = "dict"
        THEN PyDict(<<Pair("key", PyStr(<<data.v[i].key>>)),
                      Pair("inner_dict", convert_dict(data.v[i].val))>>)
        ELSE PyDict(<<Pair("key", PyStr(<<data.v[i].key>>)), Pair("value", data.v[i].val)>>)])

\* the loop of ConvertedDict.__deconvert_dict from pair i on: [ok, val, err]
deconvert_pairs(data, i, result) ==
    IF i > Len(data.v)
    THEN [ok |-> TRUE, val |-> result, err |-> "none"]
    ELSE With(data.v[i], LAMBDA pair :
             IF pair.k \in {"none", "int"}
             THEN [ok |-> FALSE, val |-> PyNone, err |-> "TypeError"]
             ELSE IF pair.k # "dict"
                  THEN [ok |-> FALSE, val |-> PyNone, err |-> "ValueError"]
                  ELSE IF HasKey(pair, "value") = HasKey(pair, "inner_dict") \/ ~ HasKey(pair, "key")
                       THEN [ok |-> FALSE, val |-> PyNone, err |-> "ValueError"]
                       ELSE IF HasKey(pair, "value")
                            THEN deconvert_pairs(data, i + 1,
                                     SetKey(result, GetKey(pair, "key").v[1], GetKey(pair, "value")))
                            ELSE With(deconvert_dict(GetKey(pair, "inner_dict")), LAMBDA inner :
                                     IF inner.ok
                                     THEN deconvert_pairs(data, i + 1,
                                              SetKey(result, GetKey(pair, "key").v[1], inner.val))
                                     ELSE inner))

\* ConvertedDict.__deconvert_dict: [ok, val, err]
deconvert_dict(data) ==
    IF Falsy(data) \/ data.k # "list"
    THEN [ok |-> TRUE,
          val |-> IF data.k = "dict" /\ HasKey(data, "value") THEN GetKey(data, "value") ELSE data,
          err |-> "none"]
    ELSE deconvert_pairs(data, 1, PyDict(<<>>))

\* ConvertedDict.__determine_depth
determine_depth(data) ==
    IF data.k = "dict" /\ data.v # <<>>
    THEN 1 + Max({determine_depth(data.v[i].val) : i \in DOMAIN data.v})
    ELSE 0

\* ConvertedDict.__update_mapping that provisions the depth it is asked for
update_mapping_always(f, current_depth) == [obj |-> [f EXCEPT !._depth = current_depth], changed |-> TRUE]

\* ConvertedDict.__update_mapping, for the depth current_depth: [obj, changed]
update_mapping_to(f, current_depth) ==
    IF f._depth >= current_depth
    THEN [obj |-> f, changed |-> FALSE]
    ELSE [obj |-> [f EXCEPT !._depth = current_depth], changed |-> TRUE]

\* ConvertedDict.__update_mapping called without a depth
update_mapping(f) == update_mapping_to(f, determine_depth(f.value))

\* ConvertedDict._deserialize
ConvertedDict__deserialize(f, data) ==
    With(deconvert_dict(data), LAMBDA d : IF d.ok THEN Ret(f, d.val) ELSE Raise(f, d.err, <<d.err>>))

\* ConvertedDict._clean
ConvertedDict__clean(f) ==
    With(Field__clean(f), LAMBDA r :
        IF r.exc # "none"
        THEN r
        ELSE IF ~ isinstance(r.obj.value, "dict")
             THEN Raise(r.obj, "ValidationException", <<"not a dict">>)
             ELSE With(update_mapping(r.obj), LAMBDA u :
                      IF u.changed
                      THEN Raise(u.obj, "InitializationRequired", <<>>)
                      ELSE Ret(u.obj, PyNone)))

\* ConvertedDict._serialize
ConvertedDict__serialize(f) ==
    IF isinstance(f.value, "dict")
    THEN Ret(f, convert_dict(f.value))
    ELSE Ret(f, PyDict(<<Pair("value", str(f.value))>>))

\* ConvertedDict.deserialize
ConvertedDict_deserialize(f, data, auto_set) ==
    With(Field_deserialize(f, data, auto_set), LAMBDA r :
        IF r.exc = "none" /\ auto_set
        THEN [r EXCEPT !.obj = update_mapping(r.obj).obj]
        ELSE r)

----------------------------------------------------------------------------
(* Document classes: AdvancedIndexMeta assembles the fields of a class body and of its
   bases into the class's _fields_dict and derives the schema from it *)

RECURSIVE InheritFields(_, _, _)

\* the class attribute _es_type of each Field class
EsTypeOf(cls) ==
    CASE cls \in {"Text", "ForeignKey"} -> "text"
      [] cls = "Integer" -> "integer"
      [] cls = "Date" -> "date"
      [] cls = "Choices" -> "text"
      [] OTHER -> "object"

\* Field.mapping: the type of the value and the attributes mapped as text beside it
Field_mapping(f) ==
    [type |-> EsTypeOf(f.cls),
     attrs |-> IF f._attrs_enabled THEN DOMAIN f._default_attrs \cup DOMAIN f._attrs ELSE {}]

\* Dict._mapping: the mapping of each property
Dict__mapping(f) ==
    [i \in DOMAIN f._properties |->
        [name |-> f._properties[i].name, mapping |-> Field_mapping(f._properties[i].field)]]

\* Field.__set_name__
Field_set_name(f, name) ==
    [f EXCEPT !._default_attrs = Overlay(@, "pretty_name" :> PyStr(<<name>>))]

\* an attribute of a class body that is no field, and one that is an elasticsearch_dsl field
OtherAttr == [cls |-> "other"]

DslField == [cls |-> "DslField"]

\* isinstance(attrs[attr], Field)
IsField(v) == v.cls \notin {"other", "DslField"}

\* the keys() and __getitem__ of a _fields_dict, as dict.update reads them
PropsAsDict(fd) ==
    PyDict([i \in DOMAIN fd._properties |-> Pair(fd._properties[i].name, fd._properties[i].field)])

\* the loop over bases[::-1], from base i down to the first: attrs.update(base._fields_dict)
InheritFields(bases, i, attrs) ==
    IF i = 0
    THEN attrs
    ELSE InheritFields(bases, i - 1,
                       IF "_fields_dict" \in DOMAIN bases[i]
                       THEN dict_update(attrs, PropsAsDict(bases[i]._fields_dict))
                       ELSE attrs)

\* the class has no Index of its own
NoIndex == [declared |-> FALSE, timestamp_enabled |-> FALSE, attrs_enabled |-> TRUE]

\* result.Index: the Index of the class body or of the first base that has one
ResolveIndex(bases, index) ==
    IF index.declared \/ ~ \E i \in DOMAIN bases : bases[i].Index.declared
    THEN index
    ELSE bases[CHOOSE i \in DOMAIN bases :
                   bases[i].Index.declared /\ \A j \in 1..(i - 1) : ~ bases[j].Index.declared].Index

\* orm_fields, with the timestamp field when the Index enables it, each field named
OrmFields(attrs, Index) ==
    With(PyDict(SelectSeq(attrs.v, LAMBDA p : IsField(p.val))), LAMBDA orm_fields :
    With(IF Index.timestamp_enabled
         THEN SetKey(orm_fields, "timestamp", Field_init("Date", PyNone, EmptyMap, FALSE, STRICT, TRUE))
         ELSE orm_fields, LAMBDA all :
        [i \in DOMAIN all.v |-> Prop(all.v[i].key, Field_set_name(all.v[i].val, all.v[i].key))]))

\* AdvancedIndexMeta.__new__: the class made from the bases and the class body
AdvancedIndexMeta_new(bases, attrs, index) ==
    With(InheritFields(bases, Len(bases), attrs), LAMBDA all :
        IF \E i \in DOMAIN all.v : all.v[i].val.cls = "DslField"
        THEN Raise(PyNone, "TypeError", <<"elasticsearch_dsl field">>)
        ELSE With(ResolveIndex(bases, index), LAMBDA Index :
             With(Dict_init(OrmFields(all, Index), Index.attrs_enabled, PyNone, EmptyMap,
                            FALSE, STRICT, FALSE), LAMBDA fd :
                 Ret([_fields_dict |-> fd,
                      mapping |-> Dict__mapping(fd),
                      Index |-> Index,
                      mro |-> 1 + Max({0} \cup {bases[i].mro : i \in DOMAIN bases})],
                     PyNone))))

----------------------------------------------------------------------------
(* Document: the instance operations, handed to the instance's own _fields_dict *)

\* Dict.__setattr__ for a name that is no attribute of the object
Dict_setattr(f, key, v) ==
    IF f._properties # <<>> /\ key \in PropNames(f)
    THEN With(set(PropOf(f, key), v), LAMBDA r :
             IF r.exc = "none" THEN Ret(WithProp(f, key, r.obj), PyNone) ELSE Raise(f, r.exc, r.msg))
    ELSE Dict_add_undefined_property(f, key, v)

\* Document.__init__: the instance's _fields_dict is a deepcopy of the class's, set to the
\* keyword arguments with the items of json_data written over them
Document_init(c, json_data, kwargs) ==
    Dict_set(c._fields_dict, IF Falsy(json_data) THEN kwargs ELSE dict_update(kwargs, json_data), FALSE)

\* Document.set
Document_set(fd, v, include_undefined) == Dict_set(fd, v, include_undefined)

\* Document.update
Document_update(fd, v, include_undefined) == Dict_update(fd, v, include_undefined)

\* Document.__setattr__ for a name that is no attribute of the object
Document_setattr(fd, key, v) == Dict_setattr(fd, key, v)

\* Document.clean: after InitializationRequired the index is initialized and the fields
\* are cleaned once more
Document_clean(fd) ==
    With(clean(fd), LAMBDA r : IF r.exc = "InitializationRequired" THEN clean(r.obj) ELSE r)

----------------------------------------------------------------------------
(* Document.bulk_save: the documents of the list that are instances of the class and are
   valid are submitted to the store, and the store's results are written to their meta *)

RECURSIVE bulk_collect(_, _, _, _), bulk_apply(_, _, _, _, _, _)
RECURSIVE bulk_apply_counting_successes(_, _, _, _, _, _)

\* isinstance(doc, cls)
IsDocument(doc) == "_fields_dict" \in DOMAIN doc

\* Document.serialize(include_meta=True): the id of the meta, when there is one, and the
\* serialized fields
Document_to_dict(doc) ==
    [_id |-> IF "id" \in DOMAIN doc.meta THEN doc.meta["id"] ELSE PyNone,
     _source |-> serialize(doc._fields_dict, FALSE).ret]

\* docs with the fields of item i replaced
WithFields(docs, i, fd) == [docs EXCEPT ![i]._fields_dict = fd]

\* the first loop of bulk_save, from item i on: [docs, bulk_data, bulk_docs, exc], with
\* bulk_docs the places in docs of the documents submitted
bulk_collect(docs, i, bulk_data, bulk_docs) ==
    IF i > Len(docs)
    THEN [docs |-> docs, bulk_data |-> bulk_data, bulk_docs |-> bulk_docs, exc |-> "none"]
    ELSE IF ~ IsDocument(docs[i])
         THEN bulk_collect(docs, i + 1, bulk_data, bulk_docs)
         ELSE With(Document_clean(docs[i]._fields_dict), LAMBDA r :
              With(IF r.exc = "InitializationRequired" THEN Document_clean(r.obj) ELSE r, LAMBDA q :
              With(WithFields(docs, i, q.obj), LAMBDA cleaned :
                  IF q.exc = "ValidationException"
                  THEN bulk_collect(cleaned, i + 1, bulk_data, bulk_docs)
                  ELSE IF q.exc # "none"
                       THEN [docs |-> cleaned, bulk_data |-> bulk_data, bulk_docs |-> bulk_docs,
                             exc |-> q.exc]
                       ELSE bulk_collect(cleaned, i + 1,
                                         Append(bulk_data, Document_to_dict(cleaned[i])),
                                         Append(bulk_docs, i)))))

\* the item that the store returns for the i-th action submitted
\* (it keeps the id that the action names, and makes one for an action that names none)
StoreItem(bulk_data, i) ==
    [_id |-> IF bulk_data[i]._id # PyNone THEN bulk_data[i]._id
             ELSE [place |-> i, source |-> bulk_data[i]._source],
     _index |-> "index"]

\* the second loop, had it moved to the next document after a success only
bulk_apply_counting_successes(docs, bulk_data, bulk_docs, results, i, counts) ==
    IF i > Len(bulk_data)
    THEN [docs |-> docs, exc |-> "none", msg |-> <<>>, ret |-> counts]
    ELSE IF ~ results[i]
         THEN bulk_apply_counting_successes(docs, bulk_data, bulk_docs, results, i + 1,
                         [counts EXCEPT !.errors = Append(@, StoreItem(bulk_data, i))])
         ELSE bulk_apply_counting_successes([docs EXCEPT ![bulk_docs[counts.success + 1]].meta =
                              ("id" :> StoreItem(bulk_data, i)._id)
                                  @@ ("index" :> StoreItem(bulk_data, i)._index) @@ @],
                         bulk_data, bulk_docs, results, i + 1,
                         [counts EXCEPT !.success = @ + 1])

\* the second loop of bulk_save, from result i on; results[i] tells whether the store
\* took the i-th action
bulk_apply(docs, bulk_data, bulk_docs, results, i, counts) ==
    IF i > Len(bulk_data)
    THEN [docs |-> docs, exc |-> "none", msg |-> <<>>, ret |-> counts]
    ELSE IF ~ results[i]
         THEN bulk_apply(docs, bulk_data, bulk_docs, results, i + 1,
                         [counts EXCEPT !.errors = Append(@, StoreItem(bulk_data, i))])
         ELSE bulk_apply([docs EXCEPT ![bulk_docs[i]].meta =
                              ("id" :> StoreItem(bulk_data, i)._id)
                                  @@ ("index" :> StoreItem(bulk_data, i)._index) @@ @],
                         bulk_data, bulk_docs, results, i + 1,
                         [counts EXCEPT !.success = @ + 1])

\* Document.bulk_save(docs) with the default flags: [docs, exc, msg, ret], ret the pair
\* returned
bulk_save(docs, results) ==
    With(bulk_collect(docs, 1, <<>>, <<>>), LAMBDA c :
        IF c.exc # "none"
        THEN [docs |-> c.docs, exc |-> c.exc, msg |-> <<>>, ret |-> PyNone]
        ELSE bulk_apply(c.docs, c.bulk_data, c.bulk_docs, results, 1,
                        [success |-> 0, errors |-> <<>>]))

----------------------------------------------------------------------------
(* ForeignKey: a field holding the id of a document of another class, which it looks up
   in the store when ref_document is read *)

\* the name under which Python keeps `self.__foreign_key_object` of the body of class
\* ForeignKey: a name with two leading underscores is mangled with the name of the class
CacheAttr == "_ForeignKey__foreign_key_object"

\* the name that ref_document asks hasattr for: a string, which is not mangled
AskedAttr == "__foreign_key_object"

\* ForeignKey.__init__, with the class attribute that holds the document looked up
ForeignKey_init(foreign_doc_type, default, default_attrs, required, validation_level, attrs_enabled) ==
    Field_init("ForeignKey", default, default_attrs, required, validation_level, attrs_enabled)
        @@ [_foreign_doc_type |-> foreign_doc_type]
        @@ (CacheAttr :> PyNone)

\* hasattr(f, name)
HasAttr(f, name) == name \in DOMAIN f

\* bool(x) of a value
Truthy(x) == ~ EMPTY_VALUES(x) /\ x # PyInt(0)

\* foreign_doc_type(meta={'id': id}): a document that was not read from the store
Unsaved(foreign_doc_type, id) == [doc_type |-> foreign_doc_type, id |-> id, stored |-> FALSE]

\* foreign_doc_type().get(id=id): the document of the store
Stored(foreign_doc_type, id) == [doc_type |-> foreign_doc_type, id |-> id, stored |-> TRUE]

\* ForeignKey.ref_document, the store holding the documents of ids: the outcome and the
\* number of requests made to the store (exists, and get for a document that exists)
ref_document(f, ids) ==
    IF ~ Truthy(f.value)
    THEN Raise(f, "ValueError", <<"You have to set foreign key id before accessing it.">>)
         @@ [lookups |-> 0]
    ELSE IF ~ HasAttr(f, AskedAttr) \/ f[CacheAttr] = PyNone \/ f[CacheAttr].id # f.value
         THEN With(IF f.value \in ids THEN Stored(f._foreign_doc_type, f.value)
                                      ELSE Unsaved(f._foreign_doc_type, f.value), LAMBDA doc :
                  Ret([f EXCEPT ![CacheAttr] = doc], doc)
                  @@ [lookups |-> IF f.value \in ids THEN 2 ELSE 1])
         ELSE Ret(f, f[CacheAttr]) @@ [lookups |-> 0]

----------------------------------------------------------------------------
(* Field.mapping: the fragment of the index mapping that a field stands for *)

RECURSIVE mapping(_), _mapping(_), ConvertedProperties(_)

\* the fragment of an attribute: a text with a keyword beside it
TextWithKeyword ==
    PyDict(<<Pair("type", PyStr(<<"text">>)),
             Pair("fields", PyDict(<<Pair("keyword",
                 PyDict(<<Pair("type", PyStr(<<"keyword">>)), Pair("ignore_above", PyInt(256))>>))>>))>>)

\* self._extra_mapping: the class's empty dict and the extra_mapping given to __init__
ExtraMapping(f) == IF "_extra_mapping" \in DOMAIN f THEN f._extra_mapping ELSE PyDict(<<>>)

\* Field.__init__(extra_mapping=extra) on the field that the other arguments make
WithExtraMapping(f, extra) ==
    IF extra.k = "dict" /\ extra.v # <<>> THEN f @@ [_extra_mapping |-> extra] ELSE f

\* the Dict that ConvertedDict.__update_mapping builds for a depth
ConvertedProperties(depth) ==
    Dict_init(<<Prop("key", Field_init("Text", PyNone, EmptyMap, FALSE, STRICT, TRUE)),
                Prop("value", Field_init("Text", PyNone, EmptyMap, FALSE, STRICT, TRUE))>>
              \o (IF depth > 1 THEN <<Prop("inner_dict", ConvertedProperties(depth - 1))>> ELSE <<>>),
              FALSE, PyNone, EmptyMap, FALSE, STRICT, FALSE)

\* Field._mapping and its overrides in Dict, Text, List and ConvertedDict
_mapping(f) ==
    CASE f.cls = "Dict" ->
            PyDict(<<Pair("properties",
                PyDict([i \in DOMAIN f._properties |->
                    Pair(f._properties[i].name, mapping(f._properties[i].field))]))>>)
      [] f.cls = "Text" -> TextWithKeyword
      [] f.cls = "List" -> _mapping(f._element_object)
      [] f.cls = "ConvertedDict" -> mapping(ConvertedProperties(f._depth))
      [] OTHER -> PyDict(<<Pair("type", PyStr(<<EsTypeOf(f.cls)>>))>>)

\* the loop of Field.mapping over the attribute keys
mapping_attrs(props, keys) ==
    dict_update(props, PyDict([i \in DOMAIN keys |-> Pair(keys[i], TextWithKeyword)]))

\* Field.mapping
mapping(f) ==
    With(dict_update(_mapping(f), ExtraMapping(f)), LAMBDA result :
        IF f._attrs_enabled
        THEN PyDict(<<Pair("properties",
                 mapping_attrs(PyDict(<<Pair("value", result)>>),
                               SeqOfSet(DOMAIN Overlay(f._default_attrs, f._attrs))))>>)
        ELSE result)

----------------------------------------------------------------------------
(* Dict.clear and Dict.pop *)

RECURSIVE Dict_clear_from(_, _)

\* the loop of Dict.clear from property i on
Dict_clear_from(f, i) ==
    IF i > Len(f._properties)
    THEN Ret(f, PyNone)
    ELSE With(set(f._properties[i].field, PyNone), LAMBDA r :
             IF r.exc # "none"
             THEN Raise(f, r.exc, r.msg)
             ELSE Dict_clear_from([f EXCEPT !._properties[i].field = r.obj], i + 1))

\* Dict.clear
Dict_clear(f) == Dict_clear_from(f, 1)

\* isinstance(x, Field), x a field or a plain value
IsFieldObject(x) == "cls" \in DOMAIN x

\* self._properties.get(key, *args)
Properties_get(f, key, args) ==
    IF key \in PropNames(f) THEN PropOf(f, key) ELSE IF args # <<>> THEN args[1] ELSE PyNone

\* Dict.pop(key, *args)
Dict_pop(f, key, args) ==
    With(Properties_get(f, key, args), LAMBDA result :
        IF result = PyNone /\ args = <<>>
        THEN Raise(f, "KeyError", <<"There is no key in the Dict object">>)
        ELSE IF IsFieldObject(result)
             THEN IF key \notin PropNames(f)
                  THEN Raise(f, "KeyError", <<key>>)
                  ELSE With(set(PropOf(f, key), PyNone), LAMBDA r :
                           IF r.exc # "none"
                           THEN Raise(f, r.exc, r.msg)
                           ELSE Ret(WithProp(f, key, r.obj), value(result)))
             ELSE Ret(f, result))

----------------------------------------------------------------------------
(* Field.__init__ on the arguments as they are given *)

\* a method of a class, as a value
Method(name) == [k |-> "method", v |-> <<name>>]

\* the attributes of Field.ValidationLevel that dir() lists and whose name does not
\* start with two underscores: the three levels and the class methods of ConfigClass
ValidationLevel ==
    ("STRICT" :> PyInt(STRICT)) @@ ("WARNING" :> PyInt(WARNING)) @@ ("DISABLED" :> PyInt(DISABLED))
        @@ ("keys" :> Method("keys")) @@ ("values" :> Method("values"))

\* x in Field.ValidationLevel: ConfigClassMeta.__iter__ yields the value of each attribute
InValidationLevel(x) == \E name \in DOMAIN ValidationLevel : ValidationLevel[name] = x

\* getattr(self.ValidationLevel, str(validation_level), None) for a level that is no int
LevelNamed(validation_level) ==
    IF validation_level.k = "str" /\ Len(validation_level.v) = 1
       /\ validation_level.v[1] \in DOMAIN ValidationLevel
    THEN ValidationLevel[validation_level.v[1]]
    ELSE PyNone

\* Field.__init__(default, default_attrs, required, validation_level, attrs_enabled,
\* extra_mapping) of the class cls
Field_construct(cls, default, default_attrs, required, validation_level, attrs_enabled, extra_mapping) ==
    With(IF validation_level.k = "int" THEN validation_level ELSE LevelNamed(validation_level),
         LAMBDA level :
        IF ~ InValidationLevel(level)
        THEN Raise(PyNone, "ValueError", <<"Please provide a valid validation level">>)
        ELSE IF ~ Falsy(default_attrs) /\ default_attrs.k # "dict"
             THEN Raise(PyNone, "TypeError", <<"Default attributes must be an instance of a dict type">>)
             ELSE Ret(WithExtraMapping(
                          Field_init(cls, default,
                                     IF Falsy(default_attrs) THEN EmptyMap ELSE AsMap(default_attrs),
                                     required,
                                     IF level.k = "int" THEN level.v ELSE level,
                                     attrs_enabled),
                          IF Falsy(extra_mapping) THEN PyNone ELSE extra_mapping),
                      PyNone))

----------------------------------------------------------------------------
(* The schema that a document registers in the store: Document.init hands over the
   mapping of the class, which AdvancedIndexMeta.__new__ computed from the class's
   _fields_dict when the class was made *)

RECURSIVE FragmentDepth(_)

\* doc_mapping._update_from_dict(result._fields_dict.mapping()) of the class c
ClassMapping(c) == mapping(c._fields_dict)

\* Document.clean with the schemas it registers: the outcome of the fields' clean and the
\* mappings handed to the store, in order
Document_clean_registering(c, fd) ==
    With(clean(fd), LAMBDA r :
        IF r.exc = "InitializationRequired"
        THEN clean(r.obj) @@ [registered |-> <<ClassMapping(c)>>]
        ELSE r @@ [registered |-> <<>>])

\* Document.save(validate=True): clean, the index initialized once more after an
\* InitializationRequired, and then the save of elasticsearch_dsl, which validates with
\* full_clean unless clean has returned, and persists the document
Document_save(c, fd) ==
    With(Document_clean_registering(c, fd), LAMBDA r :
        IF r.exc = "InitializationRequired"
        THEN With(Document_clean_registering(c, r.obj), LAMBDA q :
                 [q EXCEPT !.registered = r.registered \o <<ClassMapping(c)>> \o @]
                 @@ [persisted |-> q.exc = "none"])
        ELSE r @@ [persisted |-> r.exc = "none"])

\* the depth that the fragment of a ConvertedDict's entries provides
FragmentDepth(fragment) ==
    IF HasKey(GetKey(fragment, "properties"), "inner_dict")
    THEN 1 + FragmentDepth(GetKey(GetKey(fragment, "properties"), "inner_dict"))
    ELSE 1

\* the depth that the schema m provides for the ConvertedDict field name, a field with
\* attributes
RegisteredDepth(m, name) ==
    FragmentDepth(GetKey(GetKey(GetKey(GetKey(m, "properties"), name), "properties"), "value"))

----------------------------------------------------------------------------
(* Method resolution *)

\* the method of f's class: a and b are its arguments (b: include_all_attrs of serialize,
\* auto_set of deserialize, include_undefined of Dict.set)
Invoke(method, f, a, b) ==
    CASE method = "value" -> IF f.cls = "Dict" THEN Dict_value(f) ELSE f.value
      [] method = "set" -> IF f.cls = "Dict" THEN Dict_set(f, a, b) ELSE Field_set(f, a)
      [] method = "clean" -> Field_clean(f)
      [] method = "serialize" -> Field_serialize(f, b)
      [] method = "_serialize" ->
            CASE f.cls = "List" -> List__serialize(f)
              [] f.cls = "ConvertedDict" -> ConvertedDict__serialize(f)
              [] OTHER -> Field__serialize(f)
      [] method = "deserialize" ->
            IF f.cls = "ConvertedDict"
            THEN ConvertedDict_deserialize(f, a, b)
            ELSE Field_deserialize(f, a, b)

----------------------------------------------------------------------------
(* The state machine: one field object and the record of the last call *)

\* the call just made: its name, argument and flag, the object before it and its outcome
Call(op, arg, flag, pre, r) ==
    [op |-> op, arg |-> arg, flag |-> flag, pre |-> pre, exc |-> r.exc, msg |-> r.msg, ret |-> r.ret]

NoCall == [op |-> "init", arg |-> PyNone, flag |-> FALSE, pre |-> PyNone,
           exc |-> "none", msg |-> <<>>, ret |-> PyNone]

\* attribute values
AttrA == PyStr(<<"a">>)

AttrB == PyStr(<<"b">>)

\* the default_attrs a field is constructed with
DefaultAttrsArgs == {EmptyMap, "note" :> AttrA, "value" :> AttrA}

\* raw values given to set, update and deserialize of a scalar field
BareValues == {PyNone, PyStr(<<"x">>), PyDict(<<Pair("extra", AttrA)>>)}

WrappedValues ==
    {PyDict(<<Pair("value", PyStr(<<"x">>)), Pair("pretty_name", AttrB)>>),
     PyDict(<<Pair("extra", AttrB), Pair("value", PyNone)>>)}

RawValues == BareValues \cup WrappedValues

\* arguments of set_attrs and update_attrs
AttrsArgs ==
    {PyNone,
     PyStr(<<"x">>),
     PyDict(<<Pair("pretty_name", AttrA)>>),
     PyDict(<<Pair("extra", AttrA)>>),
     PyDict(<<Pair("value", AttrB), Pair("pretty_name", AttrB)>>)}

ItemKeys == {"value", "pretty_name", "extra"}

\* the fields of the attribute scenario: Integer fields that record warnings
InitAttrs ==
    /\ obj \in {Field_init("Integer", PyNone, da, FALSE, WARNING, TRUE) : da \in DefaultAttrsArgs}
                \cup {Field_init("Integer", PyNone, EmptyMap, FALSE, WARNING, FALSE)}
    /\ last = NoCall

Set ==
    \E raw \in RawValues :
        LET r == set(obj, raw)
        IN  obj' = r.obj /\ last' = Call("set", raw, FALSE, obj, r)

Update ==
    \E raw \in RawValues :
        LET r == Field_update(obj, raw)
        IN  obj' = r.obj /\ last' = Call("update", raw, FALSE, obj, r)

SetAttrs ==
    \E a \in AttrsArgs, include_undefined \in BOOLEAN :
        LET r == Field_set_attrs(obj, a, include_undefined)
        IN  obj' = r.obj /\ last' = Call("set_attrs", a, include_undefined, obj, r)

UpdateAttrs ==
    \E a \in AttrsArgs, include_undefined \in BOOLEAN :
        LET r == Field_update_attrs(obj, a, include_undefined)
        IN  obj' = r.obj /\ last' = Call("update_attrs", a, include_undefined, obj, r)

SetItem ==
    \E key \in ItemKeys :
        LET r == Field_setitem(obj, key, AttrB)
        IN  obj' = r.obj /\ last' = Call("setitem", PyDict(<<Pair(key, AttrB)>>), FALSE, obj, r)

Clean ==
    LET r == clean(obj)
    IN  obj' = r.obj /\ last' = Call("clean", PyNone, FALSE, obj, r)

Serialize ==
    \E include_all_attrs \in BOOLEAN :
        LET r == serialize(obj, include_all_attrs)
        IN  obj' = r.obj /\ last' = Call("serialize", PyNone, include_all_attrs, obj, r)

Deserialize ==
    \E raw \in RawValues, auto_set \in BOOLEAN :
        LET r == deserialize(obj, raw, auto_set)
        IN  obj' = r.obj /\ last' = Call("deserialize", raw, auto_set, obj, r)

NextAttrs == Set \/ Update \/ SetAttrs \/ UpdateAttrs \/ SetItem \/ Clean \/ Serialize \/ Deserialize

SpecAttrs == InitAttrs /\ [][NextAttrs]_vars

----------------------------------------------------------------------------
(* The cleaning scenario: one field of any class and level, set, cleaned, serialized
   and deserialized *)

Seven == PyInt(7)

StrSeven == PyStr(<<"7">>)

StrX == PyStr(<<"x">>)

\* a non-empty default value
DefaultD == PyStr(<<"d">>)

\* the values given to set and deserialize
CleanValues ==
    {PyNone, PyStr(<<>>), PyList(<<>>), PyDict(<<>>),
     Seven, StrSeven, StrX,
     PyList(<<StrSeven, Seven, StrX>>),
     PyList(<<StrSeven, Seven>>),
     PyDict(<<Pair("x", StrX), Pair("y", Seven)>>),
     PyDict(<<Pair("x", StrSeven)>>)}

\* the children of the Dict of the cleaning scenario
XY ==
    <<Prop("x", Field_init("Integer", PyNone, EmptyMap, FALSE, STRICT, TRUE)),
      Prop("y", Field_init("Text", PyNone, EmptyMap, FALSE, STRICT, TRUE))>>

\* the fields of the cleaning scenario
CleanFields ==
    UNION {
        {Field_init(cls, d, EmptyMap, FALSE, lvl, ae) : cls \in {"Field", "Text", "Integer"}}
        \cup {Choices_init({StrX, Seven}, d, EmptyMap, FALSE, lvl, ae),
              List_init(Field_init("Integer", PyNone, EmptyMap, FALSE, WARNING, FALSE),
                        d, EmptyMap, FALSE, lvl, ae),
              Dict_init(XY, FALSE, d, EmptyMap, FALSE, lvl, ae),
              ConvertedDict_init(d, EmptyMap, FALSE, lvl, ae)}
        : d \in {PyNone, DefaultD}, lvl \in {STRICT, WARNING, DISABLED}, ae \in BOOLEAN}

InitClean ==
    /\ obj \in CleanFields
    /\ last = NoCall

SetValue ==
    \E raw \in CleanValues :
        LET r == set(obj, raw)
        IN  obj' = r.obj /\ last' = Call("set", raw, FALSE, obj, r)

DeserializeValue ==
    \E raw \in CleanValues, auto_set \in BOOLEAN :
        LET r == deserialize(obj, raw, auto_set)
        IN  obj' = r.obj /\ last' = Call("deserialize", raw, auto_set, obj, r)

NextClean == SetValue \/ Clean \/ Serialize \/ DeserializeValue

SpecClean == InitClean /\ [][NextClean]_vars

----------------------------------------------------------------------------
(* The required scenario: one field, required or not, set to empty and non-empty values
   and cleaned *)

\* the values given to set: those of the cleaning scenario and a dict of an empty child
RequiredValues == CleanValues \cup {PyDict(<<Pair("y", PyStr(<<>>))>>)}

\* the fields of the required scenario
RequiredFields ==
    UNION {
        {Field_init(cls, PyNone, EmptyMap, rq, lvl, ae) : cls \in {"Field", "Text", "Integer"}}
        \cup {Choices_init({StrX, Seven}, PyNone, EmptyMap, rq, lvl, ae),
              List_init(Field_init("Integer", PyNone, EmptyMap, FALSE, WARNING, FALSE),
                        PyNone, EmptyMap, rq, lvl, ae),
              Dict_init(XY, FALSE, PyNone, EmptyMap, rq, lvl, ae),
              ConvertedDict_init(PyNone, EmptyMap, rq, lvl, ae)}
        : rq \in BOOLEAN, lvl \in {STRICT, WARNING, DISABLED}, ae \in BOOLEAN}

InitRequired ==
    /\ obj \in RequiredFields
    /\ last = NoCall

SetRequired ==
    \E raw \in RequiredValues :
        LET r == set(obj, raw)
        IN  obj' = r.obj /\ last' = Call("set", raw, FALSE, obj, r)

NextRequired == SetRequired \/ Clean

SpecRequired == InitRequired /\ [][NextRequired]_vars

----------------------------------------------------------------------------
(* The list scenario: one List over an element template, set to lists of valid and invalid
   elements, cleaned and serialized *)

\* the longest list given
MaxLen == 2

\* the element templates: an Integer without and with attrs, and a Dict of one Integer
Templates ==
    {Field_init("Integer", PyNone, EmptyMap, FALSE, STRICT, FALSE),
     Field_init("Integer", PyNone, EmptyMap, FALSE, STRICT, TRUE),
     Dict_init(<<Prop("x", Field_init("Integer", PyNone, EmptyMap, FALSE, STRICT, FALSE))>>,
               FALSE, PyNone, EmptyMap, FALSE, STRICT, FALSE)}

\* the elements of the lists given
Elements == {StrSeven, StrX, PyDict(<<Pair("value", StrSeven), Pair("x", StrSeven)>>)}

\* the lists given to set
Lists == {PyList(l) : l \in UNION {[1..n -> Elements] : n \in 1..MaxLen}}

InitList ==
    /\ obj \in {List_init(t, PyNone, EmptyMap, FALSE, lvl, TRUE) :
                    t \in Templates, lvl \in {STRICT, WARNING}}
    /\ last = NoCall

SetList ==
    \E raw \in Lists :
        LET r == set(obj, raw)
        IN  obj' = r.obj /\ last' = Call("set", raw, FALSE, obj, r)

NextList == SetList \/ Clean \/ Serialize

SpecList == InitList /\ [][NextList]_vars

----------------------------------------------------------------------------
(* The composite scenario: one Dict with the declared properties x and y, set, updated
   and cleaned. Document.set, Document.update and Document.clean hand the call to such
   a Dict, the document's _fields_dict. *)

\* the children of the Dict of the composite scenario
TwoIntegers(required) ==
    <<Prop("x", Field_init("Integer", PyNone, EmptyMap, required, STRICT, TRUE)),
      Prop("y", Field_init("Integer", PyNone, EmptyMap, required, STRICT, TRUE))>>

\* the values given to Dict.set and Dict.update
DictValues ==
    {PyNone,
     PyDict(<<Pair("x", StrSeven), Pair("a", Seven)>>),
     PyDict(<<Pair("x", StrX), Pair("y", StrX)>>),
     PyDict(<<Pair("b", PyDict(<<Pair("c", Seven)>>))>>),
     PyDict(<<Pair("value", PyDict(<<Pair("x", Seven), Pair("a", StrX)>>)), Pair("pretty_name", AttrA)>>)}

\* the values given with include_undefined=True
UndefinedValues ==
    {PyDict(<<Pair("x", StrSeven), Pair("a", Seven)>>),
     PyDict(<<Pair("b", PyDict(<<Pair("c", Seven)>>))>>)}

\* the arguments of Dict.set and Dict.update
DictCalls ==
    {[v |-> v, include_undefined |-> FALSE] : v \in DictValues}
        \cup {[v |-> v, include_undefined |-> TRUE] : v \in UndefinedValues}

\* a Document's _fields_dict has no attrs of its own and children with attrs; a Dict
\* made with the defaults has attrs of its own and children without
InitDict ==
    /\ obj \in {Dict_init(TwoIntegers(required), ~ attrs_enabled, PyNone, EmptyMap, FALSE,
                          STRICT, attrs_enabled) :
                    required \in BOOLEAN, attrs_enabled \in BOOLEAN}
    /\ last = NoCall

DictSet ==
    \E c \in DictCalls :
        LET r == Dict_set(obj, c.v, c.include_undefined)
        IN  obj' = r.obj /\ last' = Call("set", c.v, c.include_undefined, obj, r)

DictUpdate ==
    \E c \in DictCalls :
        LET r == Dict_update(obj, c.v, c.include_undefined)
        IN  obj' = r.obj /\ last' = Call("update", c.v, c.include_undefined, obj, r)

NextDict == DictSet \/ DictUpdate \/ Clean

SpecDict == InitDict /\ [][NextDict]_vars

----------------------------------------------------------------------------
(* The converted-dict scenario: one ConvertedDict given data of several depths *)

\* the deepest data given
MaxDepth == 3

RECURSIVE Nested(_)
\* a dict of depth n
Nested(n) == IF n = 0 THEN Seven ELSE PyDict(<<Pair("a", Nested(n - 1))>>)

\* the data given to set and deserialize: dicts, their converted form, and values that
\* are neither
Data ==
    {PyNone, StrX, PyDict(<<>>), PyDict(<<Pair("a", PyDict(<<>>))>>), PyList(<<Seven>>),
     PyDict(<<Pair("a", Seven), Pair("b", PyDict(<<Pair("c", StrX)>>))>>)}
        \cup {Nested(n) : n \in 1..MaxDepth}
        \cup {convert_dict(Nested(n)) : n \in 1..MaxDepth}

InitConverted ==
    /\ obj \in {ConvertedDict_init(PyNone, EmptyMap, FALSE, lvl, ae) :
                    lvl \in {STRICT, WARNING, DISABLED}, ae \in BOOLEAN}
    /\ last = NoCall

SetData ==
    \E raw \in Data :
        LET r == set(obj, raw)
        IN  obj' = r.obj /\ last' = Call("set", raw, FALSE, obj, r)

DeserializeData ==
    \E raw \in Data, auto_set \in BOOLEAN :
        LET r == deserialize(obj, raw, auto_set)
        IN  obj' = r.obj /\ last' = Call("deserialize", raw, auto_set, obj, r)

NextConverted == SetData \/ Clean \/ Serialize \/ DeserializeData

SpecConverted == InitConverted /\ [][NextConverted]_vars

----------------------------------------------------------------------------
(* The schema scenario: document classes declared one under the other *)

\* the longest chain of classes declared under Document
MaxInherit == 2

\* the class bodies: x an Integer, a Text or absent; y a Text, an attribute that is no
\* field, an elasticsearch_dsl field or absent
ClassBodies ==
    {PyDict(xs \o ys) :
        xs \in {<<>>,
                <<Pair("x", Field_init("Integer", PyNone, EmptyMap, FALSE, STRICT, TRUE))>>,
                <<Pair("x", Field_init("Text", PyNone, EmptyMap, FALSE, STRICT, TRUE))>>},
        ys \in {<<>>,
                <<Pair("y", Field_init("Text", PyNone, EmptyMap, FALSE, STRICT, TRUE))>>,
                <<Pair("y", OtherAttr)>>,
                <<Pair("y", DslField)>>}}

\* the Index classes of the class bodies
IndexBodies == {NoIndex, [declared |-> TRUE, timestamp_enabled |-> TRUE, attrs_enabled |-> FALSE]}

\* the class Document itself
DocumentClass == AdvancedIndexMeta_new(<<>>, PyDict(<<>>), NoIndex).obj

InitSchema ==
    /\ obj = DocumentClass
    /\ last = NoCall

\* class Sub(obj): with the body attrs and the Index index
DeclareClass ==
    /\ obj.mro <= MaxInherit
    /\ \E attrs \in ClassBodies, index \in IndexBodies :
           LET r == AdvancedIndexMeta_new(<<obj>>, attrs, index)
           IN  /\ obj' = IF r.exc = "none" THEN r.obj ELSE obj
               /\ last' = Call("class", attrs, index, obj, r)

NextSchema == DeclareClass

SpecSchema == InitSchema /\ [][NextSchema]_vars

----------------------------------------------------------------------------
(* The instance scenario: two instances of one document class with an Integer field n and
   a List field tags; the caller holds one list object, which it may give to either
   instance; the first instance is made without arguments and the operations are made on
   it. Field.set keeps the object
   it is given (self.value = value) and List._clean assigns its elements in place
   (self.value[i] = ...), so a field holds the caller's list by reference *)

\* a reference to the list object that the caller holds
PyRef(r) == [k |-> "ref", v |-> r]

\* the object that a value names
Deref(x, heap) == IF x.k = "ref" THEN heap[x.v] ELSE x

\* a dict with the objects that its values name
DerefItems(d, heap) ==
    IF d.k = "dict" THEN PyDict([i \in DOMAIN d.v |-> Pair(d.v[i].key, Deref(d.v[i].val, heap))]) ELSE d

\* the fields of an instance with the objects that their values name
DerefFields(fd, heap) ==
    [fd EXCEPT !._properties = [i \in DOMAIN @ |-> [@[i] EXCEPT !.field.value = Deref(@, heap)]]]

\* the value that a property holds after an operation that was given the items given:
\* the caller's list when the operation set the property to it, or when the property held
\* it before and the operation left a list in it; the value itself otherwise
Bound(pre, post, given, name) ==
    IF given.k = "dict" /\ HasKey(given, name)
    THEN IF GetKey(given, name).k = "ref" /\ value(PropOf(post, name)).k = "list"
         THEN GetKey(given, name)
         ELSE value(PropOf(post, name))
    ELSE IF name \in PropNames(pre) /\ PropOf(pre, name).value.k = "ref"
              /\ value(PropOf(post, name)).k = "list"
         THEN PropOf(pre, name).value
         ELSE value(PropOf(post, name))

\* the fields of the instance after the operation, holding references again
Rebound(pre, post, given) ==
    [post EXCEPT !._properties =
        [i \in DOMAIN @ |-> [@[i] EXCEPT !.field.value = Bound(pre, post, given, post._properties[i].name)]]]

\* the caller's list objects after the operation: the one a property holds has the
\* elements that the operation left in it
HeapAfter(heap, pre, post, given) ==
    [r \in DOMAIN heap |->
        IF \E i \in DOMAIN post._properties :
               Bound(pre, post, given, post._properties[i].name) = PyRef(r)
        THEN value(PropOf(post, post._properties[
                 CHOOSE i \in DOMAIN post._properties :
                     Bound(pre, post, given, post._properties[i].name) = PyRef(r)].name))
        ELSE heap[r]]

\* the class of the two instances
TaggedClass ==
    AdvancedIndexMeta_new(<<DocumentClass>>,
        PyDict(<<Pair("n", Field_init("Integer", PyNone, EmptyMap, FALSE, STRICT, TRUE)),
                 Pair("tags", List_init(Field_init("Integer", PyNone, EmptyMap, FALSE, STRICT, TRUE),
                                        PyNone, EmptyMap, FALSE, STRICT, TRUE))>>),
        NoIndex).obj

\* the items given to Document(...), set and update
Kwargs ==
    {PyDict(<<Pair("n", StrX)>>),
     PyDict(<<Pair("tags", PyRef("L"))>>),
     PyDict(<<Pair("n", StrSeven), Pair("tags", PyList(<<StrSeven>>))>>)}

\* the state of the two instances: what an operation on instance i leaves
Operated(st, i, given, r) ==
    [st EXCEPT !.docs[i] = Rebound(st.docs[i], r.obj, given),
               !.heap = HeapAfter(st.heap, st.docs[i], r.obj, given)]

InitInstances ==
    /\ \E k2 \in Kwargs :
           LET heap == "L" :> PyList(<<StrSeven>>)
               d1 == Document_init(TaggedClass, PyNone, PyDict(<<>>))
               d2 == Document_init(TaggedClass, PyNone, DerefItems(k2, heap))
           IN  obj = [cls |-> TaggedClass,
                      docs |-> <<d1.obj, Rebound(TaggedClass._fields_dict, d2.obj, k2)>>,
                      heap |-> heap]
    /\ last = NoCall

DocSet ==
    \E v \in Kwargs :
        \E fd \in {DerefFields(obj.docs[1], obj.heap)}, given \in {DerefItems(v, obj.heap)} :
            \E r \in {Document_set(fd, given, FALSE)} :
                obj' = Operated(obj, 1, v, r) /\ last' = Call("set", v, FALSE, obj, r)

DocUpdate ==
    \E v \in Kwargs :
        \E fd \in {DerefFields(obj.docs[1], obj.heap)}, given \in {DerefItems(v, obj.heap)} :
            \E r \in {Document_update(fd, given, FALSE)} :
                obj' = Operated(obj, 1, v, r) /\ last' = Call("update", v, FALSE, obj, r)

DocSetAttr ==
    \E key \in {"n", "zzz"} :
        \E fd \in {DerefFields(obj.docs[1], obj.heap)} :
            \E r \in {Document_setattr(fd, key, StrSeven)} :
                /\ obj' = Operated(obj, 1, PyDict(<<Pair(key, StrSeven)>>), r)
                /\ last' = Call("setattr", PyStr(<<key>>), FALSE, obj, r)

\* doc['n'].set_attrs(pretty_name='a')
DocSetAttrs ==
    \E fd \in {DerefFields(obj.docs[1], obj.heap)} :
        \E a \in {Field_set_attrs(PropOf(fd, "n"), PyDict(<<Pair("pretty_name", AttrA)>>), FALSE)} :
            \E r \in {Ret(WithProp(fd, "n", a.obj), PyNone)} :
                /\ obj' = Operated(obj, 1, PyDict(<<>>), r)
                /\ last' = Call("set_attrs", PyNone, FALSE, obj, r)

DocClean ==
    \E fd \in {DerefFields(obj.docs[1], obj.heap)} :
        \E r \in {Document_clean(fd)} :
            obj' = Operated(obj, 1, PyDict(<<>>), r) /\ last' = Call("clean", PyNone, FALSE, obj, r)

NextInstances == DocSet \/ DocUpdate \/ DocSetAttr \/ DocSetAttrs \/ DocClean

SpecInstances == InitInstances /\ [][NextInstances]_vars

----------------------------------------------------------------------------
(* The bulk scenario: lists of documents of one class, with an Integer field n and
   several ConvertedDict fields, saved in bulk *)

\* the number of ConvertedDict fields of the class
MaxConverted == 4

\* the longest list saved
MaxItems == 2

\* the name of the i-th ConvertedDict field
ConvertedName(i) == <<"c1", "c2", "c3", "c4", "c5", "c6">>[i]

\* the class of the documents
BulkClass ==
    AdvancedIndexMeta_new(<<DocumentClass>>,
        PyDict(<<Pair("n", Field_init("Integer", PyNone, EmptyMap, FALSE, STRICT, TRUE))>>
               \o [i \in 1..MaxConverted |->
                      Pair(ConvertedName(i), ConvertedDict_init(PyNone, EmptyMap, FALSE, STRICT, TRUE))]),
        NoIndex).obj

\* Document(n=n, c1=..., ..., cj=...) with nested data for the first j ConvertedDict fields
BulkDocument(n, j) ==
    [_fields_dict |->
         Document_init(BulkClass, PyNone,
                       PyDict(<<Pair("n", n)>> \o [i \in 1..j |-> Pair(ConvertedName(i), Nested(2))])).obj,
     meta |-> EmptyMap]

\* the items of the lists: an object that is no document, an invalid document and valid
\* documents with data too deep for some of their ConvertedDict fields
Items == {PyNone, BulkDocument(StrX, 0)} \cup {BulkDocument(StrSeven, j) : j \in {0, MaxConverted - 1, MaxConverted}}

InitBulk ==
    /\ obj \in UNION {[1..n -> Items] : n \in 1..MaxItems}
    /\ last = NoCall

\* cls.bulk_save(docs), the store taking or refusing each action
BulkSave ==
    \E results \in [1..Len(obj) -> BOOLEAN] :
        \E r \in {bulk_save(obj, results)} :
            /\ obj' = r.docs
            /\ last' = [op |-> "bulk_save", arg |-> results, flag |-> FALSE, pre |-> obj,
                        exc |-> r.exc, msg |-> r.msg, ret |-> r.ret]

NextBulk == BulkSave

SpecBulk == InitBulk /\ [][NextBulk]_vars

----------------------------------------------------------------------------
(* The foreign key scenario: one ForeignKey field, whose id is set and whose document is
   read, and the requests that the store has received *)

\* the most requests that the store receives
MaxLookups == 6

\* the ids of the documents of the store
StoredIds == {PyStr(<<"a">>), PyStr(<<"b">>)}

\* the ids given to the field: of documents of the store, of no document, and empty
GivenIds == StoredIds \cup {PyStr(<<"zz">>), PyStr(<<>>), PyNone}

InitForeignKey ==
    /\ obj \in {[fk |-> ForeignKey_init("Target", PyNone, EmptyMap, rq, STRICT, TRUE), lookups |-> 0] :
                    rq \in BOOLEAN}
    /\ last = NoCall

\* field.set(id)
SetId ==
    \E id \in GivenIds :
        \E r \in {set(obj.fk, id)} :
            /\ obj' = [obj EXCEPT !.fk = r.obj]
            /\ last' = Call("set", id, FALSE, obj, r)

\* field.ref_document
RefDocument ==
    /\ obj.lookups + 2 <= MaxLookups
    /\ \E r \in {ref_document(obj.fk, StoredIds)} :
            /\ obj' = [fk |-> r.obj, lookups |-> obj.lookups + r.lookups]
            /\ last' = Call("ref_document", PyNone, FALSE, obj, r)

NextForeignKey == SetId \/ RefDocument

SpecForeignKey == InitForeignKey /\ [][NextForeignKey]_vars

----------------------------------------------------------------------------
(* The mapping scenario: one field of any class, whose value and attributes are set, which
   is cleaned and whose mapping is read *)

\* the extra_mapping arguments
ExtraMappings == {PyNone, PyDict(<<Pair("boost", Seven)>>), PyDict(<<Pair("type", PyStr(<<"long">>))>>)}

\* the fields whose mapping is read
MappingFields ==
    {WithExtraMapping(Field_init(cls, PyNone, da, FALSE, STRICT, ae), extra) :
        cls \in {"Field", "Text", "Integer"}, da \in DefaultAttrsArgs, ae \in BOOLEAN,
        extra \in ExtraMappings}
    \cup {WithExtraMapping(Dict_init(<<Prop("x", Field_init("Integer", PyNone, EmptyMap, FALSE, STRICT, TRUE)),
                                         Prop("y", Field_init("Text", PyNone, EmptyMap, FALSE, STRICT, TRUE))>>,
                                       inner, PyNone, EmptyMap, FALSE, STRICT, ae), extra) :
        inner \in BOOLEAN, ae \in BOOLEAN, extra \in ExtraMappings}
    \cup {List_init(WithExtraMapping(Field_init("Integer", PyNone, EmptyMap, FALSE, STRICT, TRUE), extra),
                    PyNone, EmptyMap, FALSE, STRICT, ae) :
        ae \in BOOLEAN, extra \in ExtraMappings}
    \cup {ConvertedDict_init(PyNone, EmptyMap, FALSE, STRICT, ae) : ae \in BOOLEAN}

\* the values given to them: bare, with an attribute, and nested
MappingValues ==
    {StrSeven, PyDict(<<Pair("value", StrSeven), Pair("note", AttrB)>>), Nested(2)}

InitMapping ==
    /\ obj \in MappingFields
    /\ last = NoCall

\* field.set(raw)
SetMapped ==
    \E raw \in MappingValues :
        \E r \in {set(obj, raw)} :
            obj' = r.obj /\ last' = Call("set", raw, FALSE, obj, r)

\* field.mapping()
Mapping ==
    \E r \in {Ret(obj, mapping(obj))} :
        obj' = r.obj /\ last' = Call("mapping", PyNone, FALSE, obj, r)

NextMapping == SetMapped \/ Clean \/ Mapping

SpecMapping == InitMapping /\ [][NextMapping]_vars

----------------------------------------------------------------------------
(* The keys scenario: one Dict, with declared properties or with none, that is set,
   updated, cleared and popped from *)

\* the keys popped: of a declared property, of a property added, of no property
PopKeys == {"x", "a", "zz"}

\* the defaults given to pop: none, a number, None and a field object
PopDefaults ==
    {<<>>, <<Seven>>, <<PyNone>>, <<Field_init("Text", PyNone, EmptyMap, FALSE, STRICT, TRUE)>>}

\* the arguments of set and update: nothing, and a declared and an undeclared name
KeysCalls ==
    {[v |-> v, include_undefined |-> u] :
        v \in {PyNone, PyDict(<<Pair("x", StrSeven), Pair("a", Seven)>>)}, u \in BOOLEAN}

InitKeys ==
    /\ obj \in {Dict_init(TwoIntegers(FALSE), ~ attrs_enabled, PyNone, EmptyMap, FALSE,
                          STRICT, attrs_enabled) : attrs_enabled \in BOOLEAN}
               \cup {Dict_init(<<>>, FALSE, PyNone, EmptyMap, FALSE, STRICT, TRUE)}
    /\ last = NoCall

\* dict.set(v, include_undefined)
KeysSet ==
    \E c \in KeysCalls :
        \E r \in {Dict_set(obj, c.v, c.include_undefined)} :
            obj' = r.obj /\ last' = Call("set", c.v, c.include_undefined, obj, r)

\* dict.update(v, include_undefined)
KeysUpdate ==
    \E c \in KeysCalls :
        \E r \in {Dict_update(obj, c.v, c.include_undefined)} :
            obj' = r.obj /\ last' = Call("update", c.v, c.include_undefined, obj, r)

\* dict.clear()
KeysClear ==
    \E r \in {Dict_clear(obj)} :
        obj' = r.obj /\ last' = Call("clear", PyNone, FALSE, obj, r)

\* dict.pop(key, *args)
KeysPop ==
    \E key \in PopKeys, args \in PopDefaults :
        \E r \in {Dict_pop(obj, key, args)} :
            obj' = r.obj /\ last' = Call("pop", [key |-> key, args |-> args], FALSE, obj, r)

NextKeys == KeysSet \/ KeysUpdate \/ KeysClear \/ KeysPop

SpecKeys == InitKeys /\ [][NextKeys]_vars

----------------------------------------------------------------------------
(* The defaults scenario: one Dict whose properties x and y may have a default, set,
   cleaned and serialized *)

\* Dict(properties={'x': Integer(default=dx), 'y': Text(default=dy)})
DefaultedChildren(dx, dy) ==
    <<Prop("x", Field_init("Integer", dx, EmptyMap, FALSE, STRICT, TRUE)),
      Prop("y", Field_init("Text", dy, EmptyMap, FALSE, STRICT, TRUE))>>

\* the values given to the Dict
DefaultedValues ==
    {PyNone,
     PyDict(<<Pair("x", StrSeven)>>),
     PyDict(<<Pair("y", StrX)>>),
     PyDict(<<Pair("x", Seven), Pair("y", PyStr(<<>>))>>),
     PyDict(<<Pair("x", PyDict(<<Pair("value", StrSeven), Pair("note", AttrA)>>)), Pair("y", StrX)>>)}

InitDefaults ==
    /\ obj \in {Dict_init(DefaultedChildren(dx, dy), ~ attrs_enabled, PyNone, EmptyMap, FALSE,
                          STRICT, attrs_enabled) :
                    dx \in {PyNone, Seven}, dy \in {PyNone, AttrA}, attrs_enabled \in BOOLEAN}
    /\ last = NoCall

\* dict.set(v)
SetDefaulted ==
    \E v \in DefaultedValues :
        \E r \in {Dict_set(obj, v, FALSE)} :
            obj' = r.obj /\ last' = Call("set", v, FALSE, obj, r)

NextDefaults == SetDefaulted \/ Clean \/ Serialize

SpecDefaults == InitDefaults /\ [][NextDefaults]_vars

----------------------------------------------------------------------------
(* The construction scenario: Field.__init__ called with a validation level, default
   attributes and an extra mapping of any kind *)

\* the validation levels given: numbers, names of levels and other names
LevelArgs ==
    {PyInt(n) : n \in {-1, STRICT, WARNING, DISABLED, DISABLED + 1}}
        \cup {PyStr(<<name>>) : name \in {"STRICT", "WARNING", "DISABLED", "strict", "keys", "1"}}
        \cup {PyNone}

\* the default_attrs and extra_mapping given: none, dicts and values that are no dict
MappingArgs ==
    {PyNone, PyDict(<<>>), PyDict(<<Pair("note", AttrA)>>), Seven, PyList(<<Seven>>), PyList(<<>>), StrX}

\* before the call obj holds the arguments, after a call that returned, the field
InitConstruct ==
    /\ obj \in [validation_level : LevelArgs, default_attrs : MappingArgs, extra_mapping : MappingArgs]
    /\ last = NoCall

\* Field(default_attrs=..., validation_level=..., extra_mapping=...)
Construct ==
    /\ last.op = "init"
    /\ \E r \in {Field_construct("Field", PyNone, obj.default_attrs, FALSE, obj.validation_level,
                                 TRUE, obj.extra_mapping)} :
           /\ obj' = IF r.exc = "none" THEN r.obj ELSE obj
           /\ last' = Call("__init__", obj, FALSE, obj, r)

NextConstruct == Construct

SpecConstruct == InitConstruct /\ [][NextConstruct]_vars

----------------------------------------------------------------------------
(* The registration scenario: one document of the class of the bulk scenario, its class
   initialized in the store, that is given values, cleaned and saved *)

\* the names of the ConvertedDict fields of the class
ConvertedNames == {ConvertedName(i) : i \in 1..MaxConverted}

InitRegister ==
    /\ obj \in {[fields |-> BulkDocument(n, j)._fields_dict,
                 registered |-> ClassMapping(BulkClass),
                 persisted |-> FALSE] :
                    n \in {StrSeven, StrX}, j \in 0..MaxConverted}
    /\ last = NoCall

\* document.<name> = data
RegisterSetAttr ==
    \E name \in {ConvertedName(1), ConvertedName(MaxConverted)}, n \in {0, MaxDepth} :
        \E r \in {Document_setattr(obj.fields, name, Nested(n))} :
            /\ obj' = [obj EXCEPT !.fields = r.obj, !.persisted = FALSE]
            /\ last' = Call("setattr", Nested(n), FALSE, obj, r @@ [ret |-> <<>>])

\* document.clean()
RegisterClean ==
    \E r \in {Document_clean_registering(BulkClass, obj.fields)} :
        /\ obj' = [fields |-> r.obj,
                   registered |-> IF r.registered = <<>> THEN obj.registered
                                  ELSE r.registered[Len(r.registered)],
                   persisted |-> FALSE]
        /\ last' = Call("clean", PyNone, FALSE, obj, [r EXCEPT !.ret = r.registered])

\* document.save()
RegisterSave ==
    \E r \in {Document_save(BulkClass, obj.fields)} :
        /\ obj' = [fields |-> r.obj,
                   registered |-> IF r.registered = <<>> THEN obj.registered
                                  ELSE r.registered[Len(r.registered)],
                   persisted |-> r.persisted]
        /\ last' = Call("save", PyNone, FALSE, obj, [r EXCEPT !.ret = r.registered])

NextRegister == RegisterSetAttr \/ RegisterClean \/ RegisterSave

SpecRegister == InitRegister /\ [][NextRegister]_vars

----------------------------------------------------------------------------
(* The signal scenario: a Dict with an Integer n and a Dict inner that holds a
   ConvertedDict c, each of the three at any validation level, set and cleaned *)

\* Dict(properties={'n': Integer(), 'inner': Dict(properties={'c': ConvertedDict()})})
SignalDict(outer, inner, c) ==
    Dict_init(<<Prop("n", Field_init("Integer", PyNone, EmptyMap, FALSE, STRICT, TRUE)),
                Prop("inner",
                     Dict_init(<<Prop("c", ConvertedDict_init(PyNone, EmptyMap, FALSE, c, TRUE))>>,
                               TRUE, PyNone, EmptyMap, FALSE, inner, TRUE))>>,
              TRUE, PyNone, EmptyMap, FALSE, outer, TRUE)

\* the values given: n valid or not, the data of c within the first schema or deeper
SignalValues ==
    {PyDict(<<Pair("n", n), Pair("inner", PyDict(<<Pair("c", Nested(depth))>>))>>) :
        n \in {StrSeven, StrX}, depth \in {InitialDepth, MaxDepth}}

InitSignal ==
    /\ obj \in {SignalDict(outer, inner, c) :
                    outer \in {STRICT, WARNING, DISABLED}, inner \in {STRICT, WARNING, DISABLED},
                    c \in {STRICT, WARNING, DISABLED}}
    /\ last = NoCall

\* dict.set(v)
SetSignal ==
    \E v \in SignalValues :
        \E r \in {Dict_set(obj, v, FALSE)} :
            obj' = r.obj /\ last' = Call("set", v, FALSE, obj, r)

NextSignal == SetSignal \/ Clean

SpecSignal == InitSignal /\ [][NextSignal]_vars

----------------------------------------------------------------------------
(* The warning scenario: one WARNING-level field, given bare values and cleaned *)

\* Field(validation_level=WARNING) of the classes that validate a value
WarningFields ==
    {Field_init("Integer", PyNone, EmptyMap, FALSE, WARNING, ae) : ae \in BOOLEAN}
    \cup {Choices_init({StrX, Seven}, PyNone, EmptyMap, FALSE, WARNING, ae) : ae \in BOOLEAN}

\* bare values: none of them a dict that holds 'value'
WarningValues == {PyNone, Seven, StrSeven, StrX, PyDict(<<Pair("x", StrSeven)>>)}

InitWarning ==
    /\ obj \in WarningFields
    /\ last = NoCall

\* field.set(v)
SetBare ==
    \E v \in WarningValues :
        \E r \in {set(obj, v)} :
            obj' = r.obj /\ last' = Call("set", v, FALSE, obj, r)

NextWarning == SetBare \/ Clean

SpecWarning == InitWarning /\ [][NextWarning]_vars

----------------------------------------------------------------------------
(* Claims about cleaning and serialization (SpecClean) *)

\* C1: after a clean() that succeeded on a field that validates strictly and left it a
\* value, deserialize(serialize()) returns a value equal to the field's cleaned value.
C1_RoundTrip ==
    (last.op = "clean" /\ last.exc = "none" /\ ~ EMPTY_VALUES(value(obj))
        /\ obj._validation_level = STRICT) =>
        LET s == serialize(obj, FALSE)
            d == deserialize(s.obj, s.ret, FALSE)
        IN  d.exc = "none" /\ d.ret = value(obj)

\* the value inside what serialize() returned
SerializedValue(f, ret) ==
    IF f._attrs_enabled /\ ret.k = "dict" /\ HasKey(ret, "value") THEN GetKey(ret, "value") ELSE ret

\* C2: serialize() of a field whose value is empty (never set, or set to None, [], {} or "")
\* returns None when the configured default is empty and the configured default in place of
\* the value otherwise.
C2_EmptySerialize ==
    (last.op = "serialize" /\ EMPTY_VALUES(value(last.pre))) =>
        /\ last.exc = "none"
        /\ IF EMPTY_VALUES(last.pre._default_value)
           THEN last.ret = PyNone
           ELSE SerializedValue(last.pre, last.ret) = last.pre._default_value

\* the value of f is not empty and fails the type-specific validation of f's class
FailsValidation(f) == ~ EMPTY_VALUES(value(f)) /\ _clean(f).exc = "ValidationException"

\* the message clean() raises when f validates strictly
StrictMessage(f) == clean([f EXCEPT !._validation_level = STRICT]).msg

\* what the three validation levels do with a value that fails validation, the value aside
Leniency ==
    CASE last.pre._validation_level = STRICT ->
            last.exc = "ValidationException"
      [] last.pre._validation_level = WARNING ->
            /\ last.exc = "none"
            /\ "warning" \in DOMAIN obj._attrs
            /\ obj._attrs["warning"] = PyStr(StrictMessage(last.pre))
            /\ obj._attrs["warning"].v # <<>>
      [] OTHER ->
            /\ last.exc = "none"
            /\ obj._attrs = last.pre._attrs

\* C3 as stated: a clean() of a non-empty value that fails validation raises under STRICT;
\* under WARNING it returns, leaves the value as set and records the message STRICT would
\* raise as the 'warning' attribute; under DISABLED it returns, leaves the value as set and
\* records no warning.
C3_LeniencyValueAsSet ==
    (last.op = "clean" /\ FailsValidation(last.pre)) =>
        /\ Leniency
        /\ last.pre._validation_level # STRICT => value(obj) = value(last.pre)

\* C3: a clean() of a non-empty value that fails validation raises under STRICT; under
\* WARNING it returns and records the message STRICT would raise as the 'warning'
\* attribute; under DISABLED it returns and records no warning; under both a field that is
\* neither a List nor a Dict keeps the value as set, and a List or a Dict keeps the value
\* the failed validation left, with the elements or children cleaned so far.
C3_Leniency ==
    (last.op = "clean" /\ FailsValidation(last.pre)) =>
        /\ Leniency
        /\ last.pre._validation_level # STRICT =>
               IF last.pre.cls \in {"List", "Dict"}
               THEN value(obj) = value(_clean(last.pre).obj)
               ELSE value(obj) = value(last.pre)

C3_Witness ==
    /\ last.op = "clean"
    /\ FailsValidation(last.pre)
    /\ last.pre._validation_level = WARNING
    /\ last.pre.cls = "List"
    /\ "warning" \in DOMAIN obj._attrs
    /\ value(obj) # value(last.pre)

----------------------------------------------------------------------------
(* Claims about composites (SpecDict) *)

\* the places of the children of f whose own clean() raises
FailingChildren(f) ==
    {i \in DOMAIN f._properties : clean(f._properties[i].field).exc = "ValidationException"}

\* the message names the child
NamesChild(msg, name) == \E j \in 1..(Len(msg) - 1) : msg[j] = "field" /\ msg[j + 1] = name

\* C4: when two or more children of a STRICT composite are invalid at the same time,
\* clean() raises one ValidationException whose message names every failing child.
C4_AllFailingNamed ==
    (last.op = "clean" /\ last.pre._validation_level = STRICT
        /\ Cardinality(FailingChildren(last.pre)) >= 2) =>
        /\ last.exc = "ValidationException"
        /\ \A i \in FailingChildren(last.pre) : NamesChild(last.msg, last.pre._properties[i].name)

\* the dict whose items set(v) or update(v) hands to the properties of f
GivenItems(f, op, v) ==
    IF v.k # "dict"
    THEN PyDict(<<>>)
    ELSE IF op = "set" /\ f._attrs_enabled /\ HasKey(v, "value") THEN GetKey(v, "value") ELSE v

\* the keys given that name no property of f
UnknownKeys(f, op, v) == Keys(GivenItems(f, op, v)) \ PropNames(f)

\* a set or update of a Dict with declared properties that leaves the property names alone
\* and does not fail when called without include_undefined
ClosedCallDropsUnknown ==
    ~ last.flag => (last.exc = "none" /\ PropNames(obj) = PropNames(last.pre))

IsNewProperty(f, child, v) ==
    IF v.k = "dict" /\ ~ HasKey(v, "value")
    THEN /\ child.cls = "Dict"
         /\ ~ child._is_properties_defined
         /\ PropNames(child) = Keys(v)
         /\ child = Dict_set(Dict_init(<<>>, FALSE, PyNone, EmptyMap, FALSE, STRICT,
                                       f._inner_attrs_enabled), v, TRUE).obj
    ELSE /\ child.cls = "Text"
         /\ child = Field_set(Field_init("Text", PyNone, EmptyMap, FALSE, STRICT,
                                         f._inner_attrs_enabled), v).obj

----------------------------------------------------------------------------
(* Claims about ConvertedDict (SpecConverted) *)

\* the depth of the data that a clean() of f validates: of the value, or of the dict that
\* the value is the converted form of (an empty inner dict adds no level)
DataDepth(f) ==
    IF EMPTY_VALUES(f.value)
    THEN 0
    ELSE IF f.value.k = "dict"
         THEN determine_depth(f.value)
         ELSE IF deconvert_dict(f.value).ok THEN determine_depth(deconvert_dict(f.value).val) ELSE 0

\* C5: a new ConvertedDict has depth 1; no call lowers the depth; a clean() of data no
\* deeper than the depth does not raise InitializationRequired and keeps the depth; a
\* clean() of deeper data raises it, leaves the depth equal to the data's depth, and a
\* second clean() of the same data does not raise it again.
C5_DepthMonotone ==
    /\ last.op = "init" => obj._depth = 1
    /\ last.op # "init" => obj._depth >= last.pre._depth
    /\ last.op = "clean" =>
           IF DataDepth(last.pre) <= last.pre._depth
           THEN last.exc # "InitializationRequired" /\ obj._depth = last.pre._depth
           ELSE /\ last.exc = "InitializationRequired"
                /\ obj._depth = DataDepth(last.pre)
                /\ clean(obj).exc # "InitializationRequired"
                /\ clean(obj).obj._depth = obj._depth

C5_Witness ==
    /\ last.op = "clean"
    /\ last.exc = "InitializationRequired"
    /\ last.pre._depth = 2
    /\ obj._depth = 3
    /\ clean(obj).exc = "none"

----------------------------------------------------------------------------
(* Claims about the attribute side-channel (SpecAttrs) *)

IsWrapped(raw) == raw.k = "dict" /\ HasKey(raw, "value")

\* C8: on an attrs-enabled field, set(raw) with raw holding a 'value' key leaves the
\* instance attrs equal to exactly raw's other keys, update(raw) leaves them equal to the
\* previous instance attrs overlaid with raw's other keys, and with a bare raw value both
\* change only the value.
C8_SetReplacesUpdateMerges ==
    (last.op \in {"set", "update"} /\ last.pre._attrs_enabled) =>
        IF IsWrapped(last.arg)
        THEN /\ last.exc = "none"
             /\ obj.value = GetKey(last.arg, "value")
             /\ last.op = "set" => obj._attrs = AsMap(DelKey(last.arg, "value"))
             /\ last.op = "update" =>
                    obj._attrs = Overlay(last.pre._attrs, AsMap(DelKey(last.arg, "value")))
        ELSE /\ last.exc = "none"
             /\ obj.value = last.arg
             /\ [obj EXCEPT !.value = last.pre.value] = last.pre

\* an update of a wrapped value that keeps a previous attribute and overrides another
C8_Witness ==
    /\ last.op = "update"
    /\ last.pre._attrs_enabled
    /\ IsWrapped(last.arg)
    /\ (DOMAIN last.pre._attrs) \ Keys(last.arg) # {}
    /\ \E key \in DOMAIN last.pre._attrs : HasKey(last.arg, key) /\ GetKey(last.arg, key) # last.pre._attrs[key]

\* the map handed to set_attrs, as a function
GivenAttrs(a) == IF Falsy(a) THEN EmptyMap ELSE AsMap(a)

\* the entries set_attrs is said to keep
KeptAttrs(pre, a, include_undefined) ==
    IF include_undefined
    THEN Restrict(a, (DOMAIN a) \ {"value"})
    ELSE Restrict(a, (DOMAIN pre._default_attrs) \cup (DOMAIN pre._attrs))

\* C9: after set_attrs(a) without include_undefined the instance attrs are exactly the
\* entries of a whose key is a default-attr key or was an instance-attr key; with
\* include_undefined they are a without 'value'; update_attrs applies the same rule to the
\* previous instance attrs overlaid with a.
C9_SetAttrsKeyRestriction ==
    /\ (last.op = "set_attrs" /\ last.exc = "none") =>
            obj._attrs = KeptAttrs(last.pre, GivenAttrs(last.arg), last.flag)
    /\ (last.op = "update_attrs" /\ last.exc = "none") =>
            obj._attrs = KeptAttrs(last.pre, Overlay(last.pre._attrs, GivenAttrs(last.arg)), last.flag)

\* C10: neither the instance attrs nor the default attrs of a field ever contain the key
\* 'value'.
C10_NoValueAttr ==
    /\ "value" \notin DOMAIN obj._attrs
    /\ "value" \notin DOMAIN obj._default_attrs

----------------------------------------------------------------------------
(* Claims about clean() of an empty value (SpecRequired) *)

\* f with the value of every property None
AllChildrenNone(f) ==
    [f EXCEPT !._properties =
        [i \in DOMAIN @ |-> [@[i] EXCEPT !.field = [@ EXCEPT !.value = PyNone]]]]

\* a clean() of a required field with an empty value raises ValidationException and
\* changes nothing
RequiredEmptyRaises ==
    last.pre._required => (last.exc = "ValidationException" /\ obj = last.pre)

\* C11 as stated: a clean() of a field whose value is empty raises ValidationException when
\* the field is required, at every level and without changing anything; otherwise it
\* returns and leaves the value None and everything else as it was.
C11_EmptyCleanToNone ==
    (last.op = "clean" /\ EMPTY_VALUES(value(last.pre))) =>
        /\ RequiredEmptyRaises
        /\ ~ last.pre._required =>
               /\ last.exc = "none"
               /\ value(obj) = PyNone

\* C11: a clean() of a field whose value is empty raises ValidationException when the
\* field is required, at every level and without changing anything; otherwise it returns
\* and changes only the value: to None, or, for a Dict, every property's value to None,
\* which leaves the Dict's own value {}.
C11_EmptyClean ==
    (last.op = "clean" /\ EMPTY_VALUES(value(last.pre))) =>
        /\ RequiredEmptyRaises
        /\ ~ last.pre._required =>
               /\ last.exc = "none"
               /\ IF obj.cls = "Dict"
                  THEN obj = AllChildrenNone(last.pre) /\ value(obj) = PyDict(<<>>)
                  ELSE obj = [last.pre EXCEPT !.value = PyNone]

C11_Witness ==
    /\ last.op = "clean"
    /\ last.exc = "none"
    /\ obj.cls = "ConvertedDict"
    /\ last.pre.value = PyDict(<<>>)
    /\ obj.value = PyNone

----------------------------------------------------------------------------
(* Claims about List (SpecList) *)

\* the outcome of cleaning the element e with the template of f, on its own
AloneClean(f, e) == List_clean_loop([f EXCEPT !.value = PyList(<<e>>)], f._element_object, 1)

\* the places of the elements of f that the template rejects
InvalidAt(f) == {i \in DOMAIN f.value.v : AloneClean(f, f.value.v[i]).exc # "none"}

\* the first and the last of a non-empty set of places
First(S) == CHOOSE i \in S : \A j \in S : i <= j

Last(S) == CHOOSE i \in S : \A j \in S : j <= i

\* a clean() of a List holding a list with two or more invalid elements
CleanOfInvalids ==
    /\ last.op = "clean"
    /\ isinstance(last.pre.value, "list")
    /\ Cardinality(InvalidAt(last.pre)) >= 2

\* C12: a clean() of a WARNING List with two or more invalid elements records as 'warning'
\* the error of the last invalid element; under STRICT it raises the error of the first.
C12_LastWarning ==
    CleanOfInvalids =>
        IF last.pre._validation_level = WARNING
        THEN /\ last.exc = "none"
             /\ "warning" \in DOMAIN obj._attrs
             /\ obj._attrs["warning"] =
                    PyStr(AloneClean(last.pre, last.pre.value.v[Last(InvalidAt(last.pre))]).msg)
        ELSE /\ last.exc = "ValidationException"
             /\ last.msg = AloneClean(last.pre, last.pre.value.v[First(InvalidAt(last.pre))]).msg

\* the message names the element
NamesElement(msg, e) ==
    \E j \in 0..(Len(msg) - Len(str(e).v)) :
        \A n \in 1..Len(str(e).v) : msg[j + n] = str(e).v[n]

\* C13: a clean() of a WARNING List returns with every element that the template accepts
\* replaced by its coerced value and every element that it rejects left as it was set,
\* and with a warning recorded when an element was rejected; under STRICT the error raised
\* names the first invalid element.
C13_ElementsIndependent ==
    (last.op = "clean" /\ isinstance(last.pre.value, "list") /\ last.pre.value.v # <<>>) =>
        IF last.pre._validation_level = WARNING
        THEN /\ last.exc = "none"
             /\ Len(obj.value.v) = Len(last.pre.value.v)
             /\ \A i \in DOMAIN last.pre.value.v :
                    obj.value.v[i] =
                        IF i \in InvalidAt(last.pre)
                        THEN last.pre.value.v[i]
                        ELSE AloneClean(last.pre, last.pre.value.v[i]).obj.value.v[1]
             /\ InvalidAt(last.pre) # {} => "warning" \in DOMAIN obj._attrs
        ELSE InvalidAt(last.pre) # {} =>
                 /\ last.exc = "ValidationException"
                 /\ NamesElement(last.msg, last.pre.value.v[First(InvalidAt(last.pre))])

\* C14: List.clean() and List.serialize() leave the element template as it was, whether
\* they return, warn or raise.
C14_TemplateUntouched ==
    (last.op \in {"clean", "serialize"}) => obj._element_object = last.pre._element_object

C14_Witness ==
    /\ last.op = "clean"
    /\ last.exc = "none"
    /\ obj._element_object._attrs_enabled
    /\ isinstance(last.pre.value, "list")
    /\ \E i \in DOMAIN last.pre.value.v : IsWrapped(last.pre.value.v[i])
    /\ obj.value # last.pre.value

----------------------------------------------------------------------------
(* Claims about the converted form (SpecConverted) *)

RECURSIVE IsFold(_, _)
\* converted is a list with one record per key of the dict D, in D's key order: {key,
\* value} for a value that is no dict, {key, inner_dict} with the fold of the value for a
\* dict
IsFold(converted, D) ==
    /\ converted.k = "list"
    /\ Len(converted.v) = Len(D.v)
    /\ \A i \in DOMAIN D.v :
           /\ converted.v[i].k = "dict"
           /\ HasKey(converted.v[i], "key")
           /\ GetKey(converted.v[i], "key") = PyStr(<<D.v[i].key>>)
           /\ IF D.v[i].val.k = "dict"
              THEN /\ Keys(converted.v[i]) = {"key", "inner_dict"}
                   /\ IsFold(GetKey(converted.v[i], "inner_dict"), D.v[i].val)
              ELSE /\ Keys(converted.v[i]) = {"key", "value"}
                   /\ GetKey(converted.v[i], "value") = D.v[i].val

\* C15 as stated: serialize() of a ConvertedDict holding any dict D gives as its value the
\* fold of D.
C15_FoldOfAnyDict ==
    (last.op = "serialize" /\ last.pre.value.k = "dict") =>
        /\ last.exc = "none"
        /\ IsFold(SerializedValue(last.pre, last.ret), last.pre.value)

\* C15: serialize() of a ConvertedDict holding a non-empty dict D gives as its value the
\* fold of D: one record per key, in D's key order, {key, value} for a value that is no
\* dict and {key, inner_dict} with the fold of the value for a dict; for the empty dict
\* it returns None.
C15_Fold ==
    (last.op = "serialize" /\ last.pre.value.k = "dict") =>
        /\ last.exc = "none"
        /\ IF last.pre.value.v = <<>>
           THEN last.ret = PyNone
           ELSE IsFold(SerializedValue(last.pre, last.ret), last.pre.value)

C15_Witness ==
    /\ last.op = "serialize"
    /\ last.pre.value = PyDict(<<Pair("a", Seven), Pair("b", PyDict(<<Pair("c", StrX)>>))>>)
    /\ SerializedValue(last.pre, last.ret) =
           PyList(<<PyDict(<<Pair("key", PyStr(<<"a">>)), Pair("value", Seven)>>),
                    PyDict(<<Pair("key", PyStr(<<"b">>)),
                             Pair("inner_dict",
                                  PyList(<<PyDict(<<Pair("key", PyStr(<<"c">>)),
                                                    Pair("value", StrX)>>)>>))>>)>>)

----------------------------------------------------------------------------
(* Claims about document classes (SpecSchema) *)

\* the names that the class body declares as fields
DeclaredNames(attrs) == {attrs.v[i].key : i \in {j \in DOMAIN attrs.v : IsField(attrs.v[j].val)}}

\* the mapping of the property name in the schema of the class c
MappingOf(c, name) ==
    c.mapping[CHOOSE i \in DOMAIN c.mapping : c.mapping[i].name = name].mapping

\* C16: a class declared under a base has, in its _fields_dict and in its schema, its own
\* declaration of every field that its body declares, also of one that the base declares
\* too, and the base's declaration of every field that its body does not declare.
C16_SubclassOverrides ==
    (last.op = "class" /\ last.exc = "none") =>
        /\ \A name \in DeclaredNames(last.arg) :
               /\ name \in PropNames(obj._fields_dict)
               /\ PropOf(obj._fields_dict, name).cls = GetKey(last.arg, name).cls
               /\ MappingOf(obj, name).type = EsTypeOf(GetKey(last.arg, name).cls)
        /\ \A name \in PropNames(last.pre._fields_dict) \ Keys(last.arg) :
               /\ name \in PropNames(obj._fields_dict)
               /\ PropOf(obj._fields_dict, name).cls = PropOf(last.pre._fields_dict, name).cls
               /\ MappingOf(obj, name).type = EsTypeOf(PropOf(last.pre._fields_dict, name).cls)

----------------------------------------------------------------------------
(* Claims about document instances (SpecInstances) *)

\* C17: an operation on one instance leaves the field values, the instance attrs and the
\* property set of the other instance as they were, and the class's _fields_dict too.
C17_InstancesIsolated ==
    last.op # "init" =>
        /\ DerefFields(obj.docs[2], obj.heap) = DerefFields(last.pre.docs[2], last.pre.heap)
        /\ obj.cls = last.pre.cls

----------------------------------------------------------------------------
(* Claims about bulk_save (SpecBulk) *)

\* C18: bulk_save returns for every list: an item that is no document, fails validation
\* or needs a deeper schema for any number of its ConvertedDict fields is skipped or
\* retried and raises nothing.
C18_BulkNeverRaises == last.op = "bulk_save" => last.exc = "none"

\* the places in docs, in order, of the documents of the class that pass validation
Submitted(docs) ==
    SelectSeq([i \in DOMAIN docs |-> i],
              LAMBDA i : IsDocument(docs[i])
                         /\ Document_clean(Document_clean(docs[i]._fields_dict).obj).exc = "none")

\* the id that the store gives for the k-th action, the document at place p before the call
OwnId(k, p) ==
    IF "id" \in DOMAIN last.pre[p].meta THEN last.pre[p].meta["id"]
    ELSE [place |-> k, source |-> serialize(obj[p]._fields_dict, FALSE).ret]

\* C19: when bulk_save returns, the k-th document that passed the type check and
\* validation, in input order, has the id and index of the k-th result if the store took
\* it, whatever happened to the items before it, and its meta as before the call if the
\* store refused it; the meta of the items not submitted is as before the call.
C19_PositionalPairing ==
    (last.op = "bulk_save" /\ last.exc = "none") =>
        LET sub == Submitted(last.pre) IN
        /\ \A k \in DOMAIN sub :
               IF last.arg[k]
               THEN /\ obj[sub[k]].meta["id"] = OwnId(k, sub[k])
                    /\ obj[sub[k]].meta["index"] = "index"
               ELSE obj[sub[k]].meta = last.pre[sub[k]].meta
        /\ \A p \in DOMAIN obj :
               (IsDocument(obj[p]) /\ \A k \in DOMAIN sub : sub[k] # p)
                   => obj[p].meta = last.pre[p].meta
        /\ last.ret.success = Cardinality({k \in DOMAIN sub : last.arg[k]})
        /\ Len(last.ret.errors) = Cardinality({k \in DOMAIN sub : ~ last.arg[k]})

\* a document stored for the first time after the store refused the document before it
C19_Witness ==
    /\ last.op = "bulk_save" /\ last.exc = "none"
    /\ Len(obj) = 2
    /\ Submitted(last.pre) = <<1, 2>>
    /\ last.arg = <<FALSE, TRUE>>
    /\ last.pre[2].meta = EmptyMap
    /\ obj[2].meta["id"].place = 2
    /\ obj[1].meta = EmptyMap

----------------------------------------------------------------------------
(* Claims about ForeignKey (SpecForeignKey) *)

\* C20: reading ref_document of a field whose id is the id of the document it read last
\* sends no request to the store and returns that document; reading it after the id has
\* changed sends a request for the new id; reading it with an empty id fails.
C20_ResolutionCached ==
    last.op = "ref_document" =>
        LET f == last.pre.fk IN
        IF EMPTY_VALUES(f.value)
        THEN last.exc = "ValueError"
        ELSE IF f[CacheAttr] # PyNone /\ f[CacheAttr].id = f.value
             THEN obj.lookups = last.pre.lookups /\ last.ret = f[CacheAttr]
             ELSE obj.lookups > last.pre.lookups /\ last.ret.id = f.value

----------------------------------------------------------------------------
(* Claims about the mapping (SpecMapping) *)

\* the type's own fragment of f merged with its extra mapping, as a map
OwnFragment(f) == AsMap(dict_update(_mapping(f), ExtraMapping(f)))

\* C21: the mapping of a field with attributes is {properties: {value: the fragment of
\* its type with the extra mapping, k: a text with keyword for every default and instance
\* attribute k}} and nothing else; the mapping of a field without attributes is the
\* fragment of its type with the extra mapping; the fragment of a Dict is {properties:
\* {name: the mapping of the property}} over its properties.
C21_MappingShape ==
    last.op = "mapping" =>
        LET f == last.pre
            known == DOMAIN f._default_attrs \cup DOMAIN f._attrs
        IN  /\ IF f._attrs_enabled
               THEN /\ Keys(last.ret) = {"properties"}
                    /\ Keys(GetKey(last.ret, "properties")) = {"value"} \cup known
                    /\ AsMap(GetKey(GetKey(last.ret, "properties"), "value")) = OwnFragment(f)
                    /\ \A k \in known : GetKey(GetKey(last.ret, "properties"), k) = TextWithKeyword
               ELSE AsMap(last.ret) = OwnFragment(f)
            /\ f.cls = "Dict" =>
                  /\ Keys(_mapping(f)) = {"properties"}
                  /\ AsMap(GetKey(_mapping(f), "properties"))
                         = [name \in PropNames(f) |-> mapping(PropOf(f, name))]

----------------------------------------------------------------------------
(* Claims about the property set of a Dict (SpecKeys) *)

\* C22: after pop, clear, set or update the keys of a Dict contain every name they
\* contained before; pop of a property returns the value it had and leaves it with an
\* empty value; pop of a key that names no property returns the default given, or raises
\* KeyError when none is given, and changes nothing.
C22_KeysNeverShrink ==
    last.op \in {"pop", "clear", "set", "update"} =>
        /\ PropNames(last.pre) \subseteq PropNames(obj)
        /\ last.op = "pop" =>
              IF last.arg.key \in PropNames(last.pre)
              THEN /\ last.exc = "none"
                   /\ last.ret = value(PropOf(last.pre, last.arg.key))
                   /\ EMPTY_VALUES(value(PropOf(obj, last.arg.key)))
              ELSE /\ obj = last.pre
                   /\ IF last.arg.args = <<>>
                      THEN last.exc = "KeyError"
                      ELSE last.exc = "none" /\ last.ret = last.arg.args[1]

----------------------------------------------------------------------------
(* Claims about the serialized form of a Dict (SpecDefaults) *)

\* the mapping of the children in what serialize returned: under 'value' when the Dict has
\* attributes
ChildrenOf(ret, f) == IF f._attrs_enabled THEN GetKey(ret, "value") ELSE ret

\* C23: in the serialized form of a Dict the children left out are exactly those whose
\* value and default are both empty; a child with an empty value and a default appears
\* with its default, and a child with a value appears with the result of its serialize().
C23_OmittedChildren ==
    (last.op = "serialize" /\ last.exc = "none" /\ last.ret.k = "dict") =>
        \A name \in PropNames(last.pre) :
            LET child == PropOf(last.pre, name)
                inner == ChildrenOf(last.ret, last.pre)
            IN  IF EMPTY_VALUES(value(child)) /\ EMPTY_VALUES(child._default_value)
                THEN ~ HasKey(inner, name)
                ELSE /\ HasKey(inner, name)
                     /\ GetKey(inner, name) = serialize(child, FALSE).ret

----------------------------------------------------------------------------
(* Claims about construction (SpecConstruct) *)

\* a validation level given as 0, 1, 2 or by the name of one of the three levels
IsLevel(x) ==
    \/ x \in {PyInt(STRICT), PyInt(WARNING), PyInt(DISABLED)}
    \/ x \in {PyStr(<<"STRICT">>), PyStr(<<"WARNING">>), PyStr(<<"DISABLED">>)}

\* an argument that was given and is no mapping
NoMapping(x) == x # PyNone /\ x.k # "dict"

\* C24: Field.__init__ fails when the validation level is none of STRICT, WARNING and
\* DISABLED (given as 0, 1, 2 or by name), when default_attrs is no mapping and when
\* extra_mapping is no mapping; every field constructed has one of the three levels.
C24_ConfigurationFailsFast ==
    last.op = "__init__" =>
        /\ (\/ ~ IsLevel(last.arg.validation_level)
            \/ NoMapping(last.arg.default_attrs)
            \/ NoMapping(last.arg.extra_mapping)) => last.exc # "none"
        /\ last.exc = "none" => obj._validation_level \in {STRICT, WARNING, DISABLED}

----------------------------------------------------------------------------
(* Claims about the registered schema and Document.clean (SpecRegister) *)

\* the schema m provides, for every ConvertedDict field of the document, the depth of
\* the data of that field
Covers(m, fields) ==
    \A name \in ConvertedNames :
        RegisteredDepth(m, name) >= determine_depth(value(PropOf(fields, name)))

\* C25: every schema that Document.clean or Document.save hands to the store after an
\* InitializationRequired provides, for every ConvertedDict field of the document, a
\* depth not smaller than the depth of the field's data; when a document is persisted,
\* the schema registered covers its data.
C25_RegisteredCoversData ==
    /\ last.op \in {"clean", "save"} =>
           \A i \in DOMAIN last.ret : Covers(last.ret[i], obj.fields)
    /\ obj.persisted => Covers(obj.registered, obj.fields)

\* C28: one call of Document.clean on a document whose data is valid initializes the
\* index, cleans again and returns: InitializationRequired does not reach the caller,
\* however many ConvertedDict fields hold data deeper than their schema.
C28_CleanAbsorbsSignal ==
    last.op = "clean" => last.exc # "InitializationRequired"

----------------------------------------------------------------------------
(* More claims about composites (SpecDict) *)

\* C26: clean() of a STRICT composite raises ValidationException whenever the clean() of
\* one of its children would raise it, whatever the values of the other children, also
\* when a required child is empty and all the other children are empty too.
C26_EveryChildReached ==
    (last.op = "clean" /\ last.pre._validation_level = STRICT
        /\ FailingChildren(last.pre) # {}) => last.exc = "ValidationException"

----------------------------------------------------------------------------
(* Claims about InitializationRequired (SpecSignal) *)

\* the ConvertedDict c of the Dict inner of f
SignalField(f) == PropOf(PropOf(f, "inner"), "c")

\* the instance attrs of f, of its Dict inner and of the ConvertedDict c
SignalAttrs(f) == <<f._attrs, PropOf(f, "inner")._attrs, SignalField(f)._attrs>>

\* the ConvertedDict c holds data its own _clean raises InitializationRequired for
Signals(c) == ~EMPTY_VALUES(value(c)) /\ _clean(c).exc = "InitializationRequired"

\* C27: when the clean of a ConvertedDict raises InitializationRequired, the clean of
\* every Dict around it raises it too, with the same message, at each of the three
\* validation levels of the ConvertedDict and of the Dicts; no 'warning' attribute is
\* recorded for it and it becomes no part of a ValidationException.
C27_SignalPropagates ==
    (last.op = "clean" /\ Signals(SignalField(last.pre))) =>
        /\ last.exc = "InitializationRequired"
        /\ last.msg = _clean(SignalField(last.pre)).msg
        /\ SignalAttrs(obj) = SignalAttrs(last.pre)

\* the signal went through a WARNING Dict, a DISABLED Dict and a WARNING ConvertedDict
\* after the child n had failed its validation
C27_Witness ==
    /\ last.op = "clean" /\ last.exc = "InitializationRequired"
    /\ last.pre._validation_level = WARNING
    /\ PropOf(last.pre, "inner")._validation_level = DISABLED
    /\ SignalField(last.pre)._validation_level = WARNING
    /\ clean(PropOf(last.pre, "n")).exc = "ValidationException"
    /\ SignalField(obj)._depth > SignalField(last.pre)._depth

----------------------------------------------------------------------------
(* Claims about the 'warning' attribute (SpecWarning) *)

\* the type-specific validation of f runs and fails
ValidationFails(f) == ~EMPTY_VALUES(value(f)) /\ _clean(f).exc = "ValidationException"

\* C29: for a WARNING-level field given bare values and cleaned, after a clean returns
\* the instance attrs hold 'warning' if and only if the validation of that clean
\* failed; a warning of an earlier clean is gone after the clean of a valid value.
C29_WarningIsLatest ==
    (last.op = "clean" /\ last.exc = "none") =>
        (("warning" \in DOMAIN obj._attrs) <=> ValidationFails(last.pre))

\* what does hold: the clean of a value that fails its validation records the warning
C29_FailureRecorded ==
    (last.op = "clean" /\ ValidationFails(last.pre)) =>
        last.exc = "none" /\ "warning" \in DOMAIN obj._attrs

----------------------------------------------------------------------------
(* Claims about what serialize leaves alone (SpecList) *)

\* C30: serialize, with or without the default attrs, leaves the field as it was: its
\* stored value, its instance and default attrs and, for a composite, the values and
\* attrs of the fields it holds.
C30_SerializeReadOnly == last.op = "serialize" => obj = last.pre

\* what does hold: serialize changes nothing but the stored value
C30_OnlyValueChanges ==
    last.op = "serialize" => [obj EXCEPT !.value = last.pre.value] = last.pre

====
